---- MODULE Spec2Model ----
(***************************************************************************)
(* Plugin lifecycle (core/plugins.py, app.py) and the internal event       *)
(* router (core/events.py) of zatech-bot as state machines.                *)
(*                                                                         *)
(*   SpecBoot    module import (register_all), the FastAPI startup hook    *)
(*               (start_services) and the shutdown hook (stop_services).   *)
(*   SpecRouter  EventRouter.subscribe / EventRouter.dispatch called by    *)
(*               concurrent asyncio tasks.                                 *)
(***************************************************************************)
EXTENDS Integers, Sequences, FiniteSets, TLC

\* Longest plugin list explored.
MaxPlugins == 3
\* Keys a discovered plugin may carry (BasePlugin.key).
PluginKeys == {"hello", "automod"}
\* A synchronous hook either returns or raises.
HookOutcomes == {"ok", "raise"}

VARIABLES
    plugins,           \* PluginManager.plugins: the ordered list of loaded plugins (their keys)
    pc,                \* where the process is: import, start_services, serving, stop_services
    idx,               \* position of the running `for plugin in self.plugins` loop (1-based)
    step,              \* inside register_all: which call of the loop body is next
    running,           \* positions whose async hook has been called and has not completed
    calls,             \* every hook call so far: <<hook, position, event>>
    auth_initialized,  \* FirebaseAuth._initialized
    storage_state,     \* storage backend: "new", "initialised", "closed"
    socket_task,       \* api.state.socket_task: "none", "running", "closed", "awaited"
    subscribers,       \* EventRouter._subscribers: event type -> list of handlers (a defaultdict)
    lock,              \* EventRouter._lock: 0 when free, else the task holding it
    task,              \* per asyncio task: the router call it is in and that call's locals
    nsubs,             \* subscribe calls issued so far, by tasks and by handlers
    ndisps,            \* dispatch calls issued so far
    subscribed,        \* history: per event type, the handlers in the order their subscribe took effect
    issued,            \* history: per <<event type, handler>>, the subscribe calls issued
    packages,          \* config.plugin_packages: per package, its candidate modules as enumerated
    enabled,           \* config.enabled_plugins as the set discover makes of it (the allow-list)
    pkg_i,             \* position of `for package in config.plugin_packages` (app.py)
    cand_i,            \* position of `for _, name, is_pkg in pkgutil.iter_modules(...)` (discover)
    loaded,            \* history: the <<package, candidate>> position each list entry came from
    attrs,             \* the shipped plugins whose instance has the attribute _get_rules
    passes,            \* completed calls of PluginManager.shutdown
    snapshot,          \* history: attrs when the first call of shutdown returned
    tabs,              \* DashboardRegistry.tabs
    ntabcalls,         \* register_tab calls made
    last_call,         \* history: the last register_tab call, the list before it, its outcome
    context,           \* DashboardRegistry._context
    response,          \* the outcome of the last render_index / render_tab call
    http,              \* the last request to an admin route with the response to it
    written,           \* the plugin namespaces an admin route has written to storage
    backend,           \* the storage app.py constructed: InMemoryStorage or SQLModelStorage
    data,              \* InMemoryStorage._data, or the committed rows of table KeyValue
    slock,             \* InMemoryStorage._lock: the task holding it, 0 if free
    stask,             \* per task, the storage call it is in
    shadow,            \* history: per pair, the value of the last completed set, "null" after a delete
    hist,              \* history: the storage calls in the order they were issued
    raw,               \* the argument of normalize_channel_identifier, a sequence of characters
    normalized,        \* its return value once the call is made, <<"pending">> before
    delivered,         \* history: <<i, started>> for each plugin position i whose listener got an
                       \* event, started telling whether its on_startup had returned by then
    attempts,          \* RateLimiter.attempts: ip -> <<attempt_count, last_attempt_timestamp>>
    now,               \* datetime.utcnow().timestamp(), in ticks
    inflight,          \* set_auth_token: how many requests are suspended at each await, per ip and token
    nlogins,           \* requests to /admin/auth/set-token received so far
    failures,          \* history: ip -> <<failed verifications since the last successful login or
                       \* lockout expiry of ip, time of the last one>>
    last_step,         \* history: what the last step of set_auth_token did and answered
    database_url,      \* SQLModelStorage.database_url
    engine,            \* SQLModelStorage._engine: "None" or "engine"
    session_factory,   \* SQLModelStorage._session_factory is set
    initialised,       \* SQLModelStorage._initialised
    init_lock,         \* SQLModelStorage._init_lock: 0, or the task that holds it
    sqlpc,             \* where each task is in its call of init or close
    attempt,           \* _create_tables_with_retry: the loop variable, 0 outside the loop
    nsql,              \* calls of init, close and get / set / delete made so far
    engines,           \* history: engines created since the last close
    tables,            \* history: table creations that succeeded since the last close
    ready,             \* history: an init succeeded and no close has completed since
    sql_ret,           \* history: <<operation, outcome, ready at the call>> of the call that
                       \* just returned, NoReturn after any other step
    hello_backend,     \* the storage the hello plugin was registered with: "memory" or "sql"
    has_counter,       \* storage holds a value under ("hello", "greetings_sent")
    greetings_sent,    \* that value, 0 when there is none
    hpc,               \* where each handle_hello invocation is
    current,           \* handle_hello: the local `current` of each invocation
    row_seen,          \* SQLModelStorage.set: whether session.get found a row, per invocation
    nhello,            \* handle_hello invocations started so far
    nsaid,             \* history: greetings sent, i.e. calls of say that returned
    stored_enabled,    \* per greeter: <<>> without a stored settings dict, else <<its "enabled">>
    gpc,               \* where each settings request is
    route,             \* the greeter each request is for: "greeter" or "ai"
    form_enabled,      \* the local `enabled` of each request
    nsettings,         \* settings requests received so far
    message,           \* autoresponder_handler: the message, with the name of its channel
    ai_ready,          \* the AI greeter settings have enabled true and an API key
    template_on,       \* the template greeter settings have enabled true
    apc,               \* where autoresponder_handler is
    recognised,        \* history: conversations_info gave the channel name introductions
    ngreetings,        \* history: greetings sent for the message
    rules_evaluated,   \* history: a rule was matched against the message
    nresponses,        \* history: rule-based responses sent for the message
    stored_channel_id, \* settings["channel_id"] under ("modlog", "settings"), <<>> on empty storage
    mpc,               \* where the update_settings request is
    form_value,        \* str(form.get("channel_id", "")) of the request being served
    mstatus            \* the status of the last response of update_settings, 0 before

bootVars == <<plugins, pc, idx, step, running, calls, auth_initialized, storage_state, socket_task>>
routerVars == <<subscribers, lock, task, nsubs, ndisps, subscribed, issued>>
discoverVars == <<packages, enabled, pkg_i, cand_i, loaded>>
shippedVars == <<attrs, passes, snapshot>>
dashVars == <<tabs, ntabcalls, last_call>>
renderVars == <<context, response>>
adminVars == <<http, written>>
storeVars == <<backend, data, slock, stask, shadow, hist>>
normVars == <<raw, normalized>>
socketVars == <<delivered>>
loginVars == <<attempts, now, inflight, nlogins, failures, last_step>>
sqlVars == <<database_url, engine, session_factory, initialised, init_lock, sqlpc, attempt, nsql,
             engines, tables, ready, sql_ret>>
helloVars == <<hello_backend, has_counter, greetings_sent, hpc, current, row_seen, nhello, nsaid>>
greeterVars == <<stored_enabled, gpc, route, form_enabled, nsettings>>
introVars == <<message, ai_ready, template_on, apc, recognised, ngreetings, rules_evaluated, nresponses>>
modlogVars == <<stored_channel_id, mpc, form_value, mstatus>>

\* What the lifecycle actions leave alone, and what the router actions leave alone.
notBootVars == <<routerVars, discoverVars, shippedVars, dashVars, renderVars, adminVars, storeVars, normVars, socketVars, loginVars, sqlVars, helloVars, greeterVars, introVars, modlogVars>>
notRouterVars == <<bootVars, discoverVars, shippedVars, dashVars, renderVars, adminVars, storeVars, normVars, socketVars, loginVars, sqlVars, helloVars, greeterVars, introVars, modlogVars>>
notDiscoverVars == <<routerVars, shippedVars, dashVars, renderVars, adminVars, storeVars, normVars, socketVars, loginVars, sqlVars, helloVars, greeterVars, introVars, modlogVars>>
notShippedVars == <<routerVars, discoverVars, dashVars, renderVars, adminVars, storeVars, normVars, socketVars, loginVars, sqlVars, helloVars, greeterVars, introVars, modlogVars>>
notDashVars == <<bootVars, routerVars, discoverVars, shippedVars, renderVars, adminVars, storeVars, normVars, socketVars, loginVars, sqlVars, helloVars, greeterVars, introVars, modlogVars>>
notRenderVars == <<bootVars, routerVars, discoverVars, shippedVars, adminVars, storeVars, normVars, socketVars, loginVars, sqlVars, helloVars, greeterVars, introVars, modlogVars>>
notAdminVars == <<bootVars, routerVars, discoverVars, shippedVars, dashVars, renderVars, storeVars, normVars, socketVars, loginVars, sqlVars, helloVars, greeterVars, introVars, modlogVars>>
notStoreVars == <<bootVars, routerVars, discoverVars, shippedVars, dashVars, renderVars, adminVars, normVars, socketVars, loginVars, sqlVars, helloVars, greeterVars, introVars, modlogVars>>
notNormVars == <<bootVars, routerVars, discoverVars, shippedVars, dashVars, renderVars, adminVars, storeVars, socketVars, loginVars, sqlVars, helloVars, greeterVars, introVars, modlogVars>>
notSocketVars == <<bootVars, routerVars, discoverVars, shippedVars, dashVars, renderVars, adminVars, storeVars, normVars, loginVars, sqlVars, helloVars, greeterVars, introVars, modlogVars>>
notLoginVars == <<bootVars, routerVars, discoverVars, shippedVars, dashVars, renderVars, adminVars, storeVars, normVars, socketVars, sqlVars, helloVars, greeterVars, introVars, modlogVars>>
notSqlVars == <<bootVars, routerVars, discoverVars, shippedVars, dashVars, renderVars, adminVars, storeVars, normVars, socketVars, loginVars, helloVars, greeterVars, introVars, modlogVars>>
notHelloVars == <<bootVars, routerVars, discoverVars, shippedVars, dashVars, renderVars, adminVars, storeVars, normVars, socketVars, loginVars, sqlVars, greeterVars, introVars, modlogVars>>
notGreeterVars == <<bootVars, routerVars, discoverVars, shippedVars, dashVars, renderVars, adminVars, storeVars, normVars, socketVars, loginVars, sqlVars, helloVars, introVars, modlogVars>>
notIntroVars == <<bootVars, routerVars, discoverVars, shippedVars, dashVars, renderVars, adminVars, storeVars, normVars, socketVars, loginVars, sqlVars, helloVars, greeterVars, modlogVars>>
notModlogVars == <<bootVars, routerVars, discoverVars, shippedVars, dashVars, renderVars, adminVars, storeVars, normVars, socketVars, loginVars, sqlVars, helloVars, greeterVars, introVars>>

vars == <<bootVars, routerVars, discoverVars, shippedVars, dashVars, renderVars, adminVars, storeVars, normVars, socketVars, loginVars, sqlVars, helloVars, greeterVars, introVars, modlogVars>>

\* All sequences over S of length at most n.
SeqsUpTo(S, n) == UNION {[1..k -> S] : k \in 0..n}

\* True when s is a prefix of t.
IsPrefix(s, t) == Len(s) <= Len(t) /\ \A n \in 1..Len(s) : s[n] = t[n]

(***************************************************************************)
(* Module import: app.py builds the manager, discovers the plugins and     *)
(* calls register_all.                                                     *)
(***************************************************************************)

\* The state once discovery (app.py 78-79) has filled PluginManager.plugins.
BootInit ==
    /\ plugins \in SeqsUpTo(PluginKeys, MaxPlugins)
    /\ pc = "register_all"
    /\ idx = 1
    /\ step = 1
    /\ running = {}
    /\ calls = <<>>
    /\ auth_initialized = FALSE
    /\ storage_state = "new"
    /\ socket_task = "none"

\* The body of register_all's loop: the hooks it calls on one plugin, in order.
RegisterRoutesFirst == <<"register_routes", "register">>
RegisterAllOps == <<"register", "register_routes">>

\* Where a fault of register / register_routes leaves the process: register_all
\* has no handler and app.py calls it at module level, so the import fails.
RegisterFaultSwallowed == "ready"
RegisterFaultPc == "import_failed"

\* One call of the loop body of register_all.
register_all_hook ==
    /\ pc = "register_all"
    /\ idx <= Len(plugins)
    /\ \E out \in HookOutcomes :
        /\ calls' = Append(calls, <<RegisterAllOps[step], idx, out>>)
        /\ IF out = "raise"
           THEN pc' = RegisterFaultPc /\ UNCHANGED <<idx, step>>
           ELSE IF step < Len(RegisterAllOps)
                THEN step' = step + 1 /\ UNCHANGED <<pc, idx>>
                ELSE step' = 1 /\ idx' = idx + 1 /\ UNCHANGED pc
    /\ UNCHANGED <<plugins, running, auth_initialized, storage_state, socket_task>>
    /\ UNCHANGED notBootVars

\* register_all's loop is exhausted: the module import completes.
register_all_return ==
    /\ pc = "register_all"
    /\ idx > Len(plugins)
    /\ pc' = "ready"
    /\ UNCHANGED <<plugins, idx, step, running, calls, auth_initialized, storage_state, socket_task>>
    /\ UNCHANGED notBootVars

(***************************************************************************)
(* start_services: the FastAPI startup hook.                               *)
(***************************************************************************)

\* The server fires the startup event on the imported application.
start_services ==
    /\ pc = "ready"
    /\ pc' = "firebase_init"
    /\ UNCHANGED <<plugins, idx, step, running, calls, auth_initialized, storage_state, socket_task>>
    /\ UNCHANGED notBootVars

\* Where start_services is after FirebaseAuth.initialize() raised: the except
\* clause raises RuntimeError, which leaves start_services.
AuthFaultLogged == "storage_init"
AuthFaultPc == "startup_failed"

\* FirebaseAuth.initialize(): a failure is re-raised as RuntimeError.
FirebaseAuth_initialize ==
    /\ pc = "firebase_init"
    /\ \E out \in HookOutcomes :
        IF out = "ok"
        THEN auth_initialized' = TRUE /\ pc' = "storage_init"
        ELSE pc' = AuthFaultPc /\ UNCHANGED auth_initialized
    /\ UNCHANGED <<plugins, idx, step, running, calls, storage_state, socket_task>>
    /\ UNCHANGED notBootVars

\* await storage.init()
storage_init ==
    /\ pc = "storage_init"
    /\ \E out \in HookOutcomes :
        IF out = "ok"
        THEN storage_state' = "initialised" /\ pc' = "create_task"
        ELSE pc' = "startup_failed" /\ UNCHANGED storage_state
    /\ UNCHANGED <<plugins, idx, step, running, calls, auth_initialized, socket_task>>
    /\ UNCHANGED notBootVars

\* api.state.socket_task = asyncio.create_task(...), then plugin_manager.startup begins.
create_socket_task ==
    /\ pc = "create_task"
    /\ socket_task' = "running"
    /\ pc' = "startup"
    /\ idx' = 1
    /\ UNCHANGED <<plugins, step, running, calls, auth_initialized, storage_state>>
    /\ UNCHANGED notBootVars

(***************************************************************************)
(* PluginManager.startup / PluginManager.shutdown: a loop that awaits one  *)
(* hook per plugin.                                                        *)
(***************************************************************************)

\* `await plugin.on_startup(context)`: the loop goes on to the next plugin only
\* when the hook it called has completed.
StartupFireAndForget == TRUE
StartupAwaits == running = {}

\* `await plugin.on_shutdown(context)`.
ShutdownAwaits == running = {}

\* The loop calls the hook of the plugin at position idx.
HookCall(hook, awaited) ==
    /\ idx <= Len(plugins)
    /\ awaited
    /\ calls' = Append(calls, <<hook, idx, "call">>)
    /\ running' = running \cup {idx}
    /\ idx' = idx + 1
    /\ UNCHANGED <<plugins, pc, step, auth_initialized, storage_state, socket_task>>
    /\ UNCHANGED notBootVars

\* A called hook completes normally.
HookReturn(hook) ==
    /\ \E i \in running :
        /\ calls' = Append(calls, <<hook, i, "ret">>)
        /\ running' = running \ {i}
    /\ UNCHANGED <<plugins, pc, idx, step, auth_initialized, storage_state, socket_task>>
    /\ UNCHANGED notBootVars

\* self.plugins after the hook of the plugin at position i raised: startup and
\* shutdown only iterate over the list.
WithoutFaulted(i) == SubSeq(plugins, 1, i - 1) \o SubSeq(plugins, i + 1, Len(plugins))
PluginsAfterRaise(i) == plugins

\* A called hook raises: neither startup nor shutdown has a handler, so the
\* exception leaves the loop and the enclosing FastAPI hook.
HookRaise(hook, failed) ==
    /\ \E i \in running :
        /\ calls' = Append(calls, <<hook, i, "raise">>)
        /\ running' = running \ {i}
        /\ plugins' = PluginsAfterRaise(i)
    /\ pc' = failed
    /\ UNCHANGED <<idx, step, auth_initialized, storage_state, socket_task>>
    /\ UNCHANGED notBootVars

startup_call == pc = "startup" /\ HookCall("on_startup", StartupAwaits)
startup_hook_return == pc = "startup" /\ HookReturn("on_startup")
startup_hook_raise == pc = "startup" /\ HookRaise("on_startup", "startup_failed")

\* PluginManager.startup returns and with it start_services.
startup_return ==
    /\ pc = "startup"
    /\ idx > Len(plugins)
    /\ running = {}
    /\ pc' = "serving"
    /\ UNCHANGED <<plugins, idx, step, running, calls, auth_initialized, storage_state, socket_task>>
    /\ UNCHANGED notBootVars

(***************************************************************************)
(* stop_services: the FastAPI shutdown hook.                               *)
(***************************************************************************)

\* The server fires the shutdown event; plugin_manager.shutdown begins.
stop_services ==
    /\ pc = "serving"
    /\ pc' = "shutdown"
    /\ idx' = 1
    /\ UNCHANGED <<plugins, step, running, calls, auth_initialized, storage_state, socket_task>>
    /\ UNCHANGED notBootVars

shutdown_call == pc = "shutdown" /\ HookCall("on_shutdown", ShutdownAwaits)
shutdown_hook_return == pc = "shutdown" /\ HookReturn("on_shutdown")
shutdown_hook_raise == pc = "shutdown" /\ HookRaise("on_shutdown", "shutdown_failed")

\* PluginManager.shutdown returns.
shutdown_return ==
    /\ pc = "shutdown"
    /\ idx > Len(plugins)
    /\ running = {}
    /\ pc' = "socket_close"
    /\ UNCHANGED <<plugins, idx, step, running, calls, auth_initialized, storage_state, socket_task>>
    /\ UNCHANGED notBootVars

\* await socket_mode_handler.close_async()
close_async ==
    /\ pc = "socket_close"
    /\ socket_task' = "closed"
    /\ pc' = "await_task"
    /\ UNCHANGED <<plugins, idx, step, running, calls, auth_initialized, storage_state>>
    /\ UNCHANGED notBootVars

\* task = api.state.socket_task; with suppress(CancelledError): await task
await_socket_task ==
    /\ pc = "await_task"
    /\ socket_task' = "awaited"
    /\ pc' = "storage_close"
    /\ UNCHANGED <<plugins, idx, step, running, calls, auth_initialized, storage_state>>
    /\ UNCHANGED notBootVars

\* await storage.close()
storage_close ==
    /\ pc = "storage_close"
    /\ storage_state' = "closed"
    /\ pc' = "stopped"
    /\ UNCHANGED <<plugins, idx, step, running, calls, auth_initialized, socket_task>>
    /\ UNCHANGED notBootVars

NextBoot ==
    \/ register_all_hook
    \/ register_all_return
    \/ start_services
    \/ FirebaseAuth_initialize
    \/ storage_init
    \/ create_socket_task
    \/ startup_call
    \/ startup_hook_return
    \/ startup_hook_raise
    \/ startup_return
    \/ stop_services
    \/ shutdown_call
    \/ shutdown_hook_return
    \/ shutdown_hook_raise
    \/ shutdown_return
    \/ close_async
    \/ await_socket_task
    \/ storage_close


(***************************************************************************)
(* PluginManager.discover and PluginManager._extract_plugin                *)
(* (core/plugins.py), called by app.py once per configured package.        *)
(***************************************************************************)

\* Candidates explored, over all packages together.
MaxCandidates == 3

\* What a plugin module may hold under one of the names discovery looks at.
Absent == [kind |-> "absent", yields |-> "none", key |-> "none", ebd |-> FALSE]
\* A BasePlugin instance with its key and enabled_by_default.
Instance(k, e) == [kind |-> "instance", yields |-> "none", key |-> k, ebd |-> e]
\* A class or function that returns a BasePlugin instance when called.
Factory(k, e) == [kind |-> "callable", yields |-> "plugin", key |-> k, ebd |-> e]
\* A callable that returns something else, and one that raises.
FactoryOther == [kind |-> "callable", yields |-> "other", key |-> "none", ebd |-> FALSE]
FactoryRaises == [kind |-> "callable", yields |-> "raises", key |-> "none", ebd |-> FALSE]

\* A candidate: an entry of pkgutil.iter_modules and its <package>.<name>.plugin module.
Candidate(pkg, priv, imp, a1, a2, a3) ==
    [is_pkg |-> pkg, private |-> priv, import |-> imp, plugin |-> a1, Plugin |-> a2, get_plugin |-> a3]

\* The candidates explored: each way of exposing a plugin, and each way of failing to.
Candidates ==
    { Candidate(TRUE, FALSE, "ok", Instance("hello", TRUE), Absent, Absent),
      Candidate(TRUE, FALSE, "ok", Absent, Factory("automod", FALSE), Absent),
      Candidate(TRUE, FALSE, "ok", Absent, FactoryOther, Factory("hello", FALSE)),
      Candidate(TRUE, FALSE, "ok", Absent, Absent, Instance("automod", TRUE)),
      Candidate(TRUE, FALSE, "ok", Absent, Absent, Absent),
      Candidate(TRUE, FALSE, "ok", Absent, FactoryRaises, Absent),
      Candidate(TRUE, FALSE, "ModuleNotFoundError", Absent, Absent, Absent),
      Candidate(TRUE, FALSE, "ImportError", Absent, Absent, Absent),
      Candidate(TRUE, TRUE, "ok", Instance("hello", TRUE), Absent, Absent),
      Candidate(FALSE, FALSE, "ok", Absent, Absent, Absent) }

\* What _extract_plugin makes of one of the names "Plugin", "get_plugin": the
\* instance itself, the result of calling it, or nothing.
NoPlugin == [status |-> "none", key |-> "none", ebd |-> FALSE]
Raised == [status |-> "raises", key |-> "none", ebd |-> FALSE]
Found(a) == [status |-> "plugin", key |-> a.key, ebd |-> a.ebd]
FromAttr(a) ==
    IF a.kind = "instance" THEN Found(a)
    ELSE IF a.kind = "callable"
         THEN IF a.yields = "raises" THEN Raised
              ELSE IF a.yields = "plugin" THEN Found(a)
              ELSE NoPlugin
         ELSE NoPlugin

\* _extract_plugin(module): the `plugin` instance, else the first of "Plugin",
\* "get_plugin" that is or returns an instance; a call that raises is not caught.
extract_plugin(m) ==
    IF m.plugin.kind = "instance" THEN Found(m.plugin)
    ELSE IF FromAttr(m.Plugin).status # "none" THEN FromAttr(m.Plugin)
    ELSE FromAttr(m.get_plugin)

\* The enable policy of discover: a non-empty allow-list decides alone, an empty
\* one leaves it to enabled_by_default.
PolicyIgnoresDefault(key, ebd, allow) == allow = {} \/ key \in allow
PolicyRequiresDefault(key, ebd, allow) == ebd /\ (allow = {} \/ key \in allow)
EnablePolicy(key, ebd, allow) ==
    IF allow # {} /\ key \notin allow THEN FALSE
    ELSE IF allow = {} /\ ~ebd THEN FALSE
    ELSE TRUE

\* self.plugins.append(plugin)
PrependPlugin(list, key) == <<key>> \o list
AppendPlugin(list, key) == Append(list, key)

\* One pass of the loop body of discover: "skip" (continue), "load" (append) or
\* "raise" (an exception discover does not catch).
Examine(m, allow) ==
    IF ~m.is_pkg \/ m.private THEN "skip"
    ELSE IF m.import = "ModuleNotFoundError" THEN "skip"
    ELSE IF m.import # "ok" THEN "raise"
    ELSE IF extract_plugin(m).status = "raises" THEN "raise"
    ELSE IF extract_plugin(m).status = "none" THEN "skip"
    ELSE IF EnablePolicy(extract_plugin(m).key, extract_plugin(m).ebd, allow) THEN "load"
    ELSE "skip"

\* The module of the candidate at position <<package, candidate>>.
At(pos) == packages[pos[1]][pos[2]]

\* app.py before the first discover: an empty manager, two configured packages
\* with their candidates, and an allow-list.
DiscoverInit ==
    /\ \E all \in SeqsUpTo(Candidates, MaxCandidates) :
        \E cut \in 0..Len(all) :
            packages = <<SubSeq(all, 1, cut), SubSeq(all, cut + 1, Len(all))>>
    /\ enabled \in SUBSET PluginKeys
    /\ pkg_i = 1
    /\ cand_i = 1
    /\ loaded = <<>>
    /\ plugins = <<>>
    /\ pc = "discover"
    /\ idx = 1
    /\ step = 1
    /\ running = {}
    /\ calls = <<>>
    /\ auth_initialized = FALSE
    /\ storage_state = "new"
    /\ socket_task = "none"

\* The discovery variables while the lifecycle or the router is exercised.
DiscoverOver ==
    /\ packages = <<>>
    /\ enabled = {}
    /\ pkg_i = 1
    /\ cand_i = 1
    /\ loaded = <<>>

\* discover examines the next candidate of the current package.
discover_candidate ==
    /\ pc = "discover"
    /\ pkg_i <= Len(packages)
    /\ cand_i <= Len(packages[pkg_i])
    /\ LET m == packages[pkg_i][cand_i]
           out == Examine(m, enabled)
       IN  /\ out = "raise" => pc' = "import_failed" /\ UNCHANGED <<cand_i, plugins, loaded>>
           /\ out = "skip" => cand_i' = cand_i + 1 /\ UNCHANGED <<pc, plugins, loaded>>
           /\ out = "load" =>
                /\ plugins' = AppendPlugin(plugins, extract_plugin(m).key)
                /\ loaded' = Append(loaded, <<pkg_i, cand_i>>)
                /\ cand_i' = cand_i + 1
                /\ UNCHANGED pc
    /\ UNCHANGED <<packages, enabled, pkg_i>>
    /\ UNCHANGED <<idx, step, running, calls, auth_initialized, storage_state, socket_task>>
    /\ UNCHANGED notDiscoverVars

\* discover has gone through a package: app.py goes on to the next one.
discover_return ==
    /\ pc = "discover"
    /\ pkg_i <= Len(packages)
    /\ cand_i > Len(packages[pkg_i])
    /\ pkg_i' = pkg_i + 1
    /\ cand_i' = 1
    /\ UNCHANGED <<packages, enabled, loaded>>
    /\ UNCHANGED bootVars
    /\ UNCHANGED notDiscoverVars

\* Every package is discovered: app.py goes on to register_all.
discover_done ==
    /\ pc = "discover"
    /\ pkg_i > Len(packages)
    /\ pc' = "register_all"
    /\ UNCHANGED <<plugins, idx, step, running, calls, auth_initialized, storage_state, socket_task>>
    /\ UNCHANGED discoverVars
    /\ UNCHANGED notDiscoverVars

NextDiscover ==
    \/ discover_candidate
    \/ discover_return
    \/ discover_done

(***************************************************************************)
(* Properties of discovery.                                                *)
(***************************************************************************)

\* Position p comes before position q in the traversal.
Before(p, q) == p[1] < q[1] \/ (p[1] = q[1] /\ p[2] < q[2])

\* All candidate positions, and those discover has gone past.
AllPositions == UNION {{<<i, j>> : j \in 1..Len(packages[i])} : i \in 1..Len(packages)}
Examined == {p \in AllPositions : Before(p, <<pkg_i, cand_i>>)}

\* A conforming candidate: a sub-package with a public name whose plugin module
\* loads and exposes a BasePlugin instance.
Conforming(m) ==
    /\ m.is_pkg /\ ~m.private /\ m.import = "ok"
    /\ extract_plugin(m).status = "plugin"

\* The positions the list entries came from.
LoadedSet == {loaded[n] : n \in 1..Len(loaded)}

\* C12: with an empty allow-list discovery loads exactly the conforming
\* candidates whose enabled_by_default is true: of the candidates gone past so
\* far (all of them once discovery is done), those and no others are in the
\* list, each once.
C12_EmptyAllowListLoadsDefaults ==
    enabled = {} =>
        /\ LoadedSet = {p \in Examined : Conforming(At(p)) /\ extract_plugin(At(p)).ebd}
        /\ Cardinality(LoadedSet) = Len(plugins)
        /\ pc = "register_all" => Examined = AllPositions

\* C12 witness: discovery is done with an empty allow-list, having loaded a
\* default-enabled plugin and left out a default-disabled one.
C12_Witness ==
    /\ pc = "register_all"
    /\ enabled = {}
    /\ Len(plugins) >= 2
    /\ \E p \in AllPositions : Conforming(At(p)) /\ ~extract_plugin(At(p)).ebd

\* C13: with a non-empty allow-list discovery loads a conforming candidate if
\* and only if its key is in the allow-list, whatever its enabled_by_default.
C13_AllowListDecides ==
    enabled # {} =>
        /\ LoadedSet = {p \in Examined : Conforming(At(p)) /\ extract_plugin(At(p)).key \in enabled}
        /\ Cardinality(LoadedSet) = Len(plugins)
        /\ pc = "register_all" => Examined = AllPositions

\* C13 witness: discovery is done with a non-empty allow-list, having loaded a
\* default-disabled plugin that is named and left out a default-enabled one
\* that is not.
C13_Witness ==
    /\ pc = "register_all"
    /\ enabled # {}
    /\ \E p \in LoadedSet : ~extract_plugin(At(p)).ebd
    /\ \E p \in AllPositions \ LoadedSet : Conforming(At(p)) /\ extract_plugin(At(p)).ebd

\* The state part of C14: the list holds, entry by entry, the keys of the loaded
\* candidates in traversal order.
C14_TraversalOrder ==
    /\ Len(plugins) = Len(loaded)
    /\ \A n \in 1..Len(plugins) : plugins[n] = extract_plugin(At(loaded[n])).key
    /\ \A n, k \in 1..Len(loaded) : n < k => Before(loaded[n], loaded[k])

\* C14: the plugin list is in discovery traversal order (earlier package first,
\* enumeration order within a package), and discovery only ever appends to it.
C14_DiscoveryOrder ==
    [][C14_TraversalOrder' /\ IsPrefix(plugins, plugins')]_vars

\* C14 witness: discovery is done with plugins of different keys loaded from
\* both packages.
C14_Witness ==
    /\ pc = "register_all"
    /\ Len(loaded) >= 2
    /\ loaded[1][1] = 1
    /\ loaded[Len(loaded)][1] = 2
    /\ plugins[1] # plugins[Len(plugins)]

\* C15: plugin keys are unique in the manager's list: of candidates exposing
\* the same key only the first-loaded one is in it.
C15_UniqueKeys ==
    \A n, k \in 1..Len(plugins) : n # k => plugins[n] # plugins[k]

\* C16: a candidate that fails to load for any reason, or exposes no conforming
\* instance, is skipped: discover does not raise, so discovery never ends in a
\* failed import and goes past every candidate.
C16_BrokenCandidateSkipped ==
    /\ pc # "import_failed"
    /\ pc = "register_all" => Examined = AllPositions

(***************************************************************************)
(* Properties of the plugin lifecycle.                                     *)
(***************************************************************************)

\* Positions n of the call log holding the entry e.
Logged(e) == \E n \in 1..Len(calls) : calls[n] = e

\* PluginManager.startup is over: it returned or an exception left it.
StartupOver == pc \notin {"register_all", "import_failed", "ready", "firebase_init",
                          "storage_init", "create_task", "startup"}

\* PluginManager.shutdown is over: it returned or an exception left it.
ShutdownOver == pc \in {"shutdown_failed", "socket_close", "await_task", "storage_close", "stopped"}

\* C1: startup fault isolation. Once PluginManager.startup is over, if the
\* on_startup of the plugin at position i raised, the on_startup of every plugin
\* at a later position j has been invoked all the same.
C1_StartupFaultIsolation ==
    StartupOver =>
        \A i, j \in 1..Len(plugins) :
            (i < j /\ Logged(<<"on_startup", i, "raise">>)) => Logged(<<"on_startup", j, "call">>)

\* C2: best-effort shutdown. Once PluginManager.shutdown is over, if the
\* on_shutdown of the plugin at position i raised, on_shutdown has been attempted
\* on every remaining plugin of the list.
C2_BestEffortShutdown ==
    ShutdownOver =>
        \A i, j \in 1..Len(plugins) :
            (i < j /\ Logged(<<"on_shutdown", i, "raise">>)) => Logged(<<"on_shutdown", j, "call">>)

\* C3: startup is strictly sequential in list order. At most one on_startup is
\* in flight; on_startup of the plugin at position j > 1 is invoked only after
\* the on_startup of position j - 1 was invoked and has completed; and while a
\* hook has not completed no later plugin's on_startup has begun.
C3_StartupSequential ==
    /\ Cardinality(running) <= 1
    /\ \A n \in 1..Len(calls) :
        (calls[n][1] = "on_startup" /\ calls[n][3] = "call" /\ calls[n][2] > 1) =>
            \E m \in 1..(n - 1) : calls[m] = <<"on_startup", calls[n][2] - 1, "ret">>
    /\ pc = "startup" =>
        \A i \in running : \A j \in (i + 1)..Len(plugins) : ~Logged(<<"on_startup", j, "call">>)

\* C3 witness: the second plugin's on_startup has been invoked and is in flight.
C3_Witness == pc = "startup" /\ 2 \in running /\ Logged(<<"on_startup", 1, "ret">>)

\* The register / register_routes calls made so far, as <<hook, position>>.
RegisterLog ==
    LET sel == SelectSeq(calls, LAMBDA c : c[1] \in {"register", "register_routes"})
    IN  [n \in 1..Len(sel) |-> <<sel[n][1], sel[n][2]>>]

\* register(p1), register_routes(p1), ..., register(pn), register_routes(pn).
ExpectedRegisterLog(n) ==
    [k \in 1..(2 * n) |-> <<IF k % 2 = 1 THEN "register" ELSE "register_routes", (k + 1) \div 2>>]

\* C4: register_all visits the plugins in list order, calling register and then
\* register_routes on each before touching the next: the calls made so far are
\* always a prefix of register(p1), register_routes(p1), ..., register(pn),
\* register_routes(pn), and the whole of it once register_all has returned.
C4_RegisterAllOrder ==
    /\ IsPrefix(RegisterLog, ExpectedRegisterLog(Len(plugins)))
    /\ pc \notin {"register_all", "import_failed"} => RegisterLog = ExpectedRegisterLog(Len(plugins))

\* C4 witness: register_all returned on a list of at least two plugins.
C4_Witness == pc = "ready" /\ Len(plugins) >= 2 /\ Len(RegisterLog) = 2 * Len(plugins)

\* A register or register_routes call raised.
RegisterFaulted ==
    \E n \in 1..Len(calls) : calls[n][1] \in {"register", "register_routes"} /\ calls[n][3] = "raise"

\* C5: a fault raised by a plugin's register or register_routes propagates out
\* of register_all and aborts the startup sequence: the raising call is the last
\* hook call ever made, so no later plugin is registered and no on_startup is
\* invoked, and the process stays in the failed import.
C5_RegisterFaultAborts ==
    RegisterFaulted =>
        /\ pc = "import_failed"
        /\ calls[Len(calls)][3] = "raise"
        /\ \A n \in 1..Len(calls) : calls[n][1] \in {"register", "register_routes"}
        /\ \A n \in 1..(Len(calls) - 1) : calls[n][3] = "ok"

\* C5 witness: a register-phase fault with plugins still to come in the list.
C5_Witness == RegisterFaulted /\ calls[Len(calls)][2] < Len(plugins)

\* C17: the loaded plugin set is fixed after discovery. No step of register_all,
\* startup or shutdown, a hook raising included, changes the membership or the
\* order of the manager's plugin list.
C17_PluginListFixed ==
    [][plugins' = plugins]_vars

\* C17 witness: register_all and startup went through a list of two different
\* plugins or more, and a hook raised during shutdown.
C17_Witness ==
    /\ pc = "shutdown_failed"
    /\ Len(plugins) >= 2
    /\ plugins[1] # plugins[2]
    /\ \E i \in 1..Len(plugins) : Logged(<<"on_shutdown", i, "raise">>)

\* C26: if FirebaseAuth.initialize fails in start_services, startup aborts: as
\* long as the verifier is not initialised storage.init has not been called, the
\* Socket Mode task has not been created and no on_startup has been invoked, and
\* start_services never gets past the initialisation.
C26_AuthFailureAbortsStartup ==
    ~auth_initialized =>
        /\ storage_state = "new"
        /\ socket_task = "none"
        /\ \A i \in 1..Len(plugins) : ~Logged(<<"on_startup", i, "call">>)
        /\ pc \in {"register_all", "import_failed", "ready", "firebase_init", "startup_failed"}

\* C26 witness: start_services failed at FirebaseAuth.initialize with plugins
\* registered.
C26_Witness ==
    /\ pc = "startup_failed"
    /\ ~auth_initialized
    /\ Len(plugins) >= 1

\* C27: on process shutdown storage is closed only after the Socket Mode task
\* has been awaited to completion, and every run of stop_services, one in which
\* an on_shutdown raises included, ends with storage closed.
C27_StorageClosedAfterTask ==
    /\ storage_state = "closed" => socket_task = "awaited"
    /\ pc \in {"stopped", "shutdown_failed"} => storage_state = "closed"

\* The number of times on_shutdown of the plugin at position i was invoked.
ShutdownCalls(i) == Cardinality({n \in 1..Len(calls) : calls[n] = <<"on_shutdown", i, "call">>})

\* C18: on process shutdown every loaded plugin's on_shutdown is invoked exactly
\* once, regardless of prior failures: once PluginManager.shutdown is over, each
\* position of the list has exactly one on_shutdown invocation.
C18_ShutdownOncePerPlugin ==
    ShutdownOver => \A i \in 1..Len(plugins) : ShutdownCalls(i) = 1

(***************************************************************************)
(* The shipped plugins (plugins/hello, automod, autoresponder, modlog) and *)
(* PluginManager.shutdown called more than once.                           *)
(***************************************************************************)

\* Calls of PluginManager.shutdown explored.
ShutdownRuns == 2

\* The shipped plugins in the order pkgutil enumerates src/plugins, and those
\* whose register ends with `self._get_rules = get_rules`.
ShippedOrder == <<"automod", "autoresponder", "hello", "modlog">>
ShippedKeys == {ShippedOrder[n] : n \in 1..Len(ShippedOrder)}
RulePlugins == {"automod", "autoresponder"}

\* The manager's list when the plugins in S are the loaded ones.
ShippedList(S) == SelectSeq(ShippedOrder, LAMBDA k : k \in S)

\* on_shutdown of the shipped plugin `key` when the plugins in `a` have the
\* attribute: AutoModPlugin and AutoResponderPlugin delete _get_rules if it is
\* there, HelloPlugin and ModLogPlugin inherit the no-op of BasePlugin.
OnShutdownUnguarded(key, a) ==
    IF key \in RulePlugins
    THEN [raises |-> key \notin a, attrs |-> a \ {key}]
    ELSE [raises |-> FALSE, attrs |-> a]
on_shutdown(key, a) ==
    IF key \in RulePlugins /\ key \in a
    THEN [raises |-> FALSE, attrs |-> a \ {key}]
    ELSE [raises |-> FALSE, attrs |-> a]

\* Freshly constructed shipped plugins in the manager's list, before register_all.
ShippedInit ==
    /\ plugins \in {ShippedList(S) : S \in SUBSET ShippedKeys}
    /\ attrs = {}
    /\ passes = 0
    /\ snapshot = {}
    /\ pc = "register_all"
    /\ idx = 1
    /\ step = 1
    /\ running = {}
    /\ calls = <<>>
    /\ auth_initialized = FALSE
    /\ storage_state = "new"
    /\ socket_task = "none"

\* The shipped-plugin variables while other parts are exercised.
ShippedOver ==
    /\ attrs = {}
    /\ passes = 0
    /\ snapshot = {}

\* register of the next shipped plugin: it runs to its end, where the rule
\* plugins set _get_rules, or an exception leaves it before that and register_all
\* with it, so that the plugins after it are never registered.
shipped_register ==
    /\ pc = "register_all"
    /\ idx <= Len(plugins)
    /\ \E out \in HookOutcomes :
        /\ calls' = Append(calls, <<"register", idx, out>>)
        /\ IF out = "raise"
           THEN pc' = "shutdown" /\ idx' = 1 /\ UNCHANGED attrs
           ELSE /\ attrs' = attrs \cup ({plugins[idx]} \cap RulePlugins)
                /\ idx' = idx + 1
                /\ UNCHANGED pc
    /\ UNCHANGED <<plugins, step, running, auth_initialized, storage_state, socket_task>>
    /\ UNCHANGED <<passes, snapshot>>
    /\ UNCHANGED notShippedVars

\* register_all is through the list: the first call of shutdown begins.
shipped_registered ==
    /\ pc = "register_all"
    /\ idx > Len(plugins)
    /\ pc' = "shutdown"
    /\ idx' = 1
    /\ UNCHANGED <<plugins, step, running, calls, auth_initialized, storage_state, socket_task>>
    /\ UNCHANGED shippedVars
    /\ UNCHANGED notShippedVars

\* PluginManager.shutdown awaits on_shutdown of the next plugin.
shipped_on_shutdown ==
    /\ pc = "shutdown"
    /\ idx <= Len(plugins)
    /\ LET r == on_shutdown(plugins[idx], attrs)
       IN  IF r.raises
           THEN /\ calls' = Append(calls, <<"on_shutdown", idx, "raise">>)
                /\ pc' = "shutdown_failed"
                /\ UNCHANGED <<idx, attrs>>
           ELSE /\ calls' = Append(calls, <<"on_shutdown", idx, "ok">>)
                /\ attrs' = r.attrs
                /\ idx' = idx + 1
                /\ UNCHANGED pc
    /\ UNCHANGED <<plugins, step, running, auth_initialized, storage_state, socket_task>>
    /\ UNCHANGED <<passes, snapshot>>
    /\ UNCHANGED notShippedVars

\* PluginManager.shutdown returns; it is called again until ShutdownRuns calls
\* are made.
shipped_shutdown_return ==
    /\ pc = "shutdown"
    /\ idx > Len(plugins)
    /\ passes' = passes + 1
    /\ snapshot' = IF passes = 0 THEN attrs ELSE snapshot
    /\ idx' = 1
    /\ pc' = IF passes + 1 >= ShutdownRuns THEN "stopped" ELSE "shutdown"
    /\ UNCHANGED <<plugins, step, running, calls, auth_initialized, storage_state, socket_task>>
    /\ UNCHANGED attrs
    /\ UNCHANGED notShippedVars

NextShipped ==
    \/ shipped_register
    \/ shipped_registered
    \/ shipped_on_shutdown
    \/ shipped_shutdown_return

\* C19: PluginManager.shutdown called again on the shipped plugins does not
\* raise, and from the return of the first call on every plugin stays in the
\* state the first call left it in, whether or not its register ever ran.
C19_ShutdownIdempotent ==
    /\ pc # "shutdown_failed"
    /\ passes >= 1 => attrs = snapshot

\* C19 witness: shutdown has returned twice on a list with both rule plugins,
\* one whose register had set _get_rules and one whose register never completed.
C19_Witness ==
    /\ pc = "stopped"
    /\ passes >= 2
    /\ \E i, j \in 1..Len(plugins) :
        /\ plugins[i] \in RulePlugins /\ Logged(<<"register", i, "ok">>)
        /\ plugins[j] \in RulePlugins /\ ~Logged(<<"register", j, "ok">>)

(***************************************************************************)
(* DashboardRegistry (dashboards/base.py): the admin tabs.                 *)
(***************************************************************************)

\* register_tab calls explored.
MaxTabCalls == 3

\* The tabs explored: AdminTab reduced to the fields the registry reads.
Slugs == {"overview", "automod", "hello"}
Labels == {"Alpha", "alpha", "Zeta"}
Orders == {0, 20}
AdminTab == [slug : Slugs, label : Labels, order : Orders]

\* str.lower on the labels explored.
lower(label) ==
    CASE label = "Alpha" -> "alpha"
      [] label = "alpha" -> "alpha"
      [] label = "Zeta" -> "zeta"

\* Python's str comparison (by code point) on the strings explored.
CodePointOrder == <<"Alpha", "Zeta", "alpha", "zeta">>
Rank(str) == CHOOSE n \in 1..Len(CodePointOrder) : CodePointOrder[n] = str
StrLess(a, b) == Rank(a) < Rank(b)

\* key=lambda t: (t.order, t.label.lower()), and the comparison of two keys.
SortKeyCaseSensitive(t) == <<t.order, t.label>>
SortKey(t) == <<t.order, lower(t.label)>>
KeyLess(a, b) == a[1] < b[1] \/ (a[1] = b[1] /\ StrLess(a[2], b[2]))

\* list.sort is stable: an element goes after the elements whose key is not
\* greater than its own, in the order the list had.
RECURSIVE Insert(_, _)
Insert(sorted, t) ==
    IF sorted = <<>> THEN <<t>>
    ELSE IF KeyLess(SortKey(t), SortKey(sorted[1])) THEN <<t>> \o sorted
    ELSE <<sorted[1]>> \o Insert(Tail(sorted), t)
RECURSIVE SortTabs(_)
SortTabs(list) ==
    IF list = <<>> THEN <<>>
    ELSE Insert(SortTabs(SubSeq(list, 1, Len(list) - 1)), list[Len(list)])

\* any(existing.slug == tab.slug for existing in self.tabs)
SameTabRegistered(tab) == \E n \in 1..Len(tabs) : tabs[n] = tab
SlugTaken(tab) == \E n \in 1..Len(tabs) : tabs[n].slug = tab.slug

\* No register_tab call made yet.
NoTabCall == [before |-> <<>>, tab |-> [slug |-> "none", label |-> "Alpha", order |-> 0], raised |-> FALSE]

\* A template context: the keys of the dict, each with where its value is from.
Mapping(keys, from) == [k \in keys |-> from]

\* No page requested yet.
NoResponse ==
    [op |-> "none", slug |-> "none", registry |-> <<>>, status |-> "none", template |-> "none",
     active_tab |-> "none", context |-> Mapping({}, "none"), invoked |-> <<>>]

\* DashboardRegistry.__init__, and app.py attaching the plugin context to it.
DashInit ==
    /\ tabs = <<>>
    /\ ntabcalls = 0
    /\ last_call = NoTabCall
    /\ context = "plugin_context"
    /\ response = NoResponse

\* DashboardRegistry.register_tab(tab): ValueError on a slug already there, else
\* append and sort.
RegisterTab(space) ==
    /\ \E tab \in space :
        /\ last_call' = [before |-> tabs, tab |-> tab, raised |-> SlugTaken(tab)]
        /\ tabs' = IF SlugTaken(tab) THEN tabs ELSE SortTabs(Append(tabs, tab))
    /\ ntabcalls' = ntabcalls + 1
    /\ UNCHANGED notDashVars

register_tab == ntabcalls < MaxTabCalls /\ RegisterTab(AdminTab)

NextDash ==
    \/ register_tab

\* C20: register_tab with a slug already in the registry fails and leaves the
\* registry as it was (same tabs, same count, same order); a call with a new
\* slug does not fail; and slugs are unique in the registry.
C20_DuplicateSlugRejected ==
    /\ last_call.raised <=> \E n \in 1..Len(last_call.before) : last_call.before[n].slug = last_call.tab.slug
    /\ last_call.raised => tabs = last_call.before
    /\ \A n, k \in 1..Len(tabs) : n # k => tabs[n].slug # tabs[k].slug

\* C20 witness: a call failed on a registry of two tabs, with a tab that has a
\* registered slug but another label or order.
C20_Witness ==
    /\ last_call.raised
    /\ Len(tabs) >= 2
    /\ \A n \in 1..Len(tabs) : tabs[n] # last_call.tab

\* C21: after any sequence of register_tab calls the tab list is sorted by order
\* ascending, and among tabs of equal order by label ascending with the case of
\* the letters ignored.
C21_TabsSorted ==
    \A n, k \in 1..Len(tabs) :
        n < k =>
            \/ tabs[n].order < tabs[k].order
            \/ /\ tabs[n].order = tabs[k].order
               /\ ~StrLess(lower(tabs[k].label), lower(tabs[n].label))

\* C21 witness: a tab labelled "alpha" was registered after a tab of the same
\* order labelled "Zeta" and stands before it.
C21_Witness ==
    /\ ~last_call.raised
    /\ last_call.tab.label = "alpha"
    /\ \E n \in 1..Len(last_call.before) :
        /\ last_call.before[n].label = "Zeta"
        /\ last_call.before[n].order = last_call.tab.order
    /\ \E n \in 1..(Len(tabs) - 1) :
        /\ tabs[n] = last_call.tab
        /\ tabs[n + 1].label = "Zeta"
        /\ tabs[n + 1].order = tabs[n].order

(***************************************************************************)
(* DashboardRegistry.render_index, render_tab and _resolve_context.        *)
(***************************************************************************)

\* context_provider of a tab: None, or a callable that is a plain function or a
\* coroutine function and returns a dict with some keys or something else.
NoProvider == [kind |-> "none", async |-> FALSE, result |-> "none", keys |-> {}]
Provider(a, r, ks) == [kind |-> "callable", async |-> a, result |-> r, keys |-> ks]
Providers ==
    { NoProvider,
      Provider(FALSE, "dict", {"rules"}),
      Provider(TRUE, "dict", {"rules", "request", "active_tab"}),
      Provider(FALSE, "list", {}),
      Provider(TRUE, "list", {}) }

\* The tabs with a provider explored: two slugs, the (order, label) pairs whose
\* order differs by case-sensitivity, a template per slug.
RenderSlugs == {"overview", "automod"}
OrderLabels == {<<0, "Zeta">>, <<20, "alpha">>, <<20, "Zeta">>}
ProviderTabs ==
    {[slug |-> sl, label |-> ol[2], order |-> ol[1], template |-> sl \o ".html", provider |-> p] :
        sl \in RenderSlugs, ol \in OrderLabels, p \in Providers}

\* The keys render_tab sets itself.
RegistryKeys == {"request", "tabs", "active_tab"}

\* result = provider(request, plugin_context), then `await result` if it is
\* awaitable: what isinstance(result, dict) is asked about.
ResultAwaited(p) == p.result

\* template_context.update({...}): the registry's values replace the provider's.
ProviderKeysWin(keys) == [k \in keys \cup RegistryKeys |-> IF k \in keys THEN "provider" ELSE "registry"]
MergeContext(keys) == [k \in keys \cup RegistryKeys |-> IF k \in RegistryKeys THEN "registry" ELSE "provider"]

\* _resolve_context(tab, request): the provider's dict, or the exception raised,
\* with the provider invocations made.
resolve_context(tab, ctx) ==
    IF tab.provider.kind = "none"
    THEN [status |-> "ok", keys |-> {}, invoked |-> <<>>]
    ELSE IF ctx = "none"
    THEN [status |-> "RuntimeError", keys |-> {}, invoked |-> <<>>]
    ELSE LET call == [slug |-> tab.slug, args |-> <<"request", ctx>>, awaited |-> tab.provider.async]
         IN  IF ResultAwaited(tab.provider) = "dict"
             THEN [status |-> "ok", keys |-> tab.provider.keys, invoked |-> <<call>>]
             ELSE [status |-> "TypeError", keys |-> {}, invoked |-> <<call>>]

\* The positions of the tabs with the slug, in list order.
Matches(list, slug) == {n \in 1..Len(list) : list[n].slug = slug}

\* raise HTTPException(status_code=404, detail="Tab not found")
EmptyShell(list, slug) ==
    [op |-> "render_tab", slug |-> slug, registry |-> list, status |-> "200", template |-> "admin/index.html",
     active_tab |-> "none", context |-> Mapping({"request", "tabs"}, "registry"), invoked |-> <<>>]
TabNotFound(list, slug) ==
    [op |-> "render_tab", slug |-> slug, registry |-> list, status |-> "404", template |-> "none",
     active_tab |-> "none", context |-> Mapping({}, "none"), invoked |-> <<>>]

\* render_tab(slug, request) on the tab list: the first tab with the slug is
\* rendered with its resolved context, an exception of _resolve_context goes
\* through, and no tab with the slug is a 404.
RenderTab(list, slug, ctx) ==
    IF Matches(list, slug) = {}
    THEN TabNotFound(list, slug)
    ELSE LET tab == list[CHOOSE n \in Matches(list, slug) : \A k \in Matches(list, slug) : n <= k]
             r == resolve_context(tab, ctx)
         IN  IF r.status = "ok"
             THEN [op |-> "render_tab", slug |-> slug, registry |-> list, status |-> "200",
                   template |-> tab.template, active_tab |-> tab.slug,
                   context |-> MergeContext(r.keys), invoked |-> r.invoked]
             ELSE [op |-> "render_tab", slug |-> slug, registry |-> list, status |-> r.status,
                   template |-> "none", active_tab |-> "none",
                   context |-> Mapping({}, "none"), invoked |-> r.invoked]

\* first_tab = self.tabs[0]
LastTab(list) == list[Len(list)]
FirstTab(list) == list[1]

\* render_index(request): render_tab on the first tab, or the empty shell.
RenderIndex(list, ctx) ==
    IF list # <<>>
    THEN [RenderTab(list, FirstTab(list).slug, ctx) EXCEPT !.op = "render_index", !.slug = "none"]
    ELSE [op |-> "render_index", slug |-> "none", registry |-> list, status |-> "200",
          template |-> "admin/index.html", active_tab |-> "none",
          context |-> Mapping({"request", "tabs"}, "registry"), invoked |-> <<>>]

\* A plugin or app.py registers a tab that may have a provider.
register_provider_tab == ntabcalls < MaxTabCalls /\ RegisterTab(ProviderTabs)

\* GET /admin
render_index ==
    /\ response' = RenderIndex(tabs, context)
    /\ UNCHANGED <<tabs, ntabcalls, last_call, context>>
    /\ UNCHANGED notRenderVars

\* GET /admin/tabs/{slug}
render_tab ==
    /\ \E slug \in Slugs : response' = RenderTab(tabs, slug, context)
    /\ UNCHANGED <<tabs, ntabcalls, last_call, context>>
    /\ UNCHANGED notRenderVars

NextRender ==
    \/ register_provider_tab
    \/ render_index
    \/ render_tab

\* Tab a comes strictly before tab b by (order, lowercased label).
Lower(a, b) ==
    \/ a.order < b.order
    \/ a.order = b.order /\ StrLess(lower(a.label), lower(b.label))

\* Two outcomes are the same page (or the same failure) with the same provider
\* invocations.
SameResult(a, b) ==
    /\ a.status = b.status
    /\ a.template = b.template
    /\ a.active_tab = b.active_tab
    /\ a.context = b.context
    /\ a.invoked = b.invoked

\* C22: render_index on a registry with tabs gives what render_tab gives on the
\* slug of a tab with the lowest (order, lowercased label); on an empty registry
\* it renders the empty shell and invokes no provider.
C22_IndexRendersLowestTab ==
    response.op = "render_index" =>
        IF response.registry = <<>>
        THEN /\ response.status = "200"
             /\ response.template = "admin/index.html"
             /\ response.active_tab = "none"
             /\ response.invoked = <<>>
        ELSE \E n \in 1..Len(response.registry) :
                /\ \A k \in 1..Len(response.registry) : ~Lower(response.registry[k], response.registry[n])
                /\ SameResult(response, RenderTab(response.registry, response.registry[n].slug, context))

\* C22 witness: the index was rendered on a registry of two tabs of the same
\* order, labelled "alpha" and "Zeta", and the provider of the first was invoked.
C22_Witness ==
    /\ response.op = "render_index"
    /\ Len(response.registry) = 2
    /\ response.registry[1].order = response.registry[2].order
    /\ response.registry[1].label = "alpha"
    /\ response.registry[2].label = "Zeta"
    /\ response.status = "200"
    /\ response.active_tab = response.registry[1].slug
    /\ Len(response.invoked) = 1

\* A step that is a render_tab call with a slug no registered tab has.
UnknownSlugStep ==
    /\ response' # response
    /\ response'.op = "render_tab"
    /\ \A n \in 1..Len(tabs) : tabs[n].slug # response'.slug

\* C23: render_tab with a slug that matches no registered tab fails with a 404,
\* invokes no provider, renders no template and leaves the registry unchanged.
C23_UnknownSlugNotFound ==
    [][UnknownSlugStep =>
        /\ response'.status = "404"
        /\ response'.invoked = <<>>
        /\ response'.template = "none"
        /\ tabs' = tabs]_vars

\* C23 witness: render_tab failed with a 404 on a registry that holds a tab with
\* a provider under another slug.
C23_Witness ==
    /\ response.op = "render_tab"
    /\ response.status = "404"
    /\ response.registry = tabs
    /\ \E n \in 1..Len(tabs) : tabs[n].provider.kind = "callable"
    /\ \A n \in 1..Len(tabs) : tabs[n].slug # response.slug

\* What C24 says of the outcome of render_tab on the registered tab t.
RenderedAsClaimed(t) ==
    IF t.provider.kind = "none"
    THEN /\ response.invoked = <<>>
         /\ response.status = "200"
         /\ response.template = t.template
         /\ response.active_tab = t.slug
         /\ response.context = Mapping(RegistryKeys, "registry")
    ELSE /\ response.invoked =
                <<[slug |-> t.slug, args |-> <<"request", "plugin_context">>, awaited |-> t.provider.async]>>
         /\ IF t.provider.result # "dict"
            THEN /\ response.status = "TypeError"
                 /\ response.template = "none"
            ELSE /\ response.status = "200"
                 /\ response.template = t.template
                 /\ response.active_tab = t.slug
                 /\ DOMAIN response.context = t.provider.keys \cup RegistryKeys
                 /\ \A k \in RegistryKeys : response.context[k] = "registry"
                 /\ \A k \in t.provider.keys \ RegistryKeys : response.context[k] = "provider"

\* C24: for a registered tab render_tab invokes the provider, if there is one,
\* once with (request, plugin context), awaited if asynchronous; a result that
\* is no dict is a TypeError with nothing rendered; otherwise the tab's template
\* is rendered with the provider's dict in which request, tabs and active_tab
\* are the registry's, also where the provider gave keys of these names.
C24_RenderTabContext ==
    response.op = "render_tab" =>
        \A n \in 1..Len(response.registry) :
            response.registry[n].slug = response.slug => RenderedAsClaimed(response.registry[n])

\* C24 witness: a tab was rendered whose asynchronous provider returned a dict
\* with a key "request" of its own.
C24_Witness ==
    /\ response.op = "render_tab"
    /\ response.status = "200"
    /\ Len(response.invoked) = 1
    /\ response.invoked[1].awaited
    /\ \E n \in 1..Len(response.registry) :
        /\ response.registry[n].slug = response.slug
        /\ "request" \in response.registry[n].provider.keys
    /\ response.context["request"] = "registry"
    /\ response.context["rules"] = "provider"

(***************************************************************************)
(* The admin routes (app.py and the plugins' register_routes) and          *)
(* require_auth (security/auth.py).                                        *)
(***************************************************************************)

\* An admin route: its path, whether its signature has Depends(require_auth),
\* the storage namespace its body writes to, and whether it writes whatever the
\* form holds.
Route(path, guarded, ns, always) ==
    [path |-> path, guarded |-> guarded, namespace |-> ns, always |-> always]

AdminRoutes ==
    { Route("GET /admin", TRUE, "none", FALSE),
      Route("GET /admin/tabs/{slug}", TRUE, "none", FALSE),
      Route("POST /admin/logout", TRUE, "none", FALSE),
      Route("POST /admin/tabs/hello/settings", FALSE, "hello", TRUE),
      Route("POST /admin/tabs/automod/rules", FALSE, "automod", FALSE),
      Route("POST /admin/tabs/automod/rules/delete", FALSE, "automod", FALSE),
      Route("POST /admin/tabs/autoresponder/rules", TRUE, "autoresponder", FALSE),
      Route("POST /admin/tabs/autoresponder/rules/delete", TRUE, "autoresponder", FALSE),
      Route("POST /admin/tabs/autoresponder_greeter/greeter/settings", TRUE, "autoresponder", FALSE),
      Route("POST /admin/tabs/autoresponder_greeter/ai/settings", TRUE, "autoresponder", FALSE),
      Route("POST /admin/tabs/modlog/settings", TRUE, "modlog", FALSE) }

\* The ID token a request may carry in the firebase_token cookie or in an
\* Authorization: Bearer header: of a registered user, expired, or of a user
\* that is deleted or disabled.
Tokens == {"valid", "expired", "unregistered"}

\* A request: the route, the credentials, whether Accept contains text/html,
\* and whether the form passes the validation of the route's body.
Requests ==
    [route : AdminRoutes, cookie : Tokens \cup {"none"}, bearer : Tokens \cup {"none"},
     html : BOOLEAN, form_ok : BOOLEAN]

\* FirebaseAuth.verify_token: the decoded token, or None.
verify_token(token) == token \in {"valid", "unregistered"}
\* FirebaseAuth.check_user_exists
check_user_exists(token) == token = "valid"

\* get_current_user(request): TRUE for a user, FALSE for None. The cookie is
\* looked at first, the header only if there is no cookie.
get_current_user(req) ==
    LET id_token == IF req.cookie # "none" THEN req.cookie ELSE req.bearer
    IN  /\ id_token # "none"
        /\ verify_token(id_token)
        /\ check_user_exists(id_token)

\* require_auth(request): "user", or the status of the HTTPException raised.
require_auth(req) ==
    IF get_current_user(req) THEN "user"
    ELSE IF req.html THEN "307 /admin/login"
    ELSE "401"

\* The body of a route: whether it calls storage.set.
BodyWrites(req) ==
    /\ req.route.namespace # "none"
    /\ req.route.always \/ req.form_ok

\* FastAPI serving a request to an admin route: the dependency first, if the
\* route has it, then the body.
Serve(req) ==
    IF req.route.guarded /\ require_auth(req) # "user"
    THEN [request |-> req, status |-> require_auth(req), wrote |-> FALSE]
    ELSE [request |-> req, status |-> "handled", wrote |-> BodyWrites(req)]

\* No request made yet.
AdminInit ==
    /\ http = [request |-> "none", status |-> "none", wrote |-> FALSE]
    /\ written = {}

\* A request to an admin route is served.
admin_request ==
    /\ \E req \in Requests :
        /\ http' = Serve(req)
        /\ written' = IF Serve(req).wrote THEN written \cup {req.route.namespace} ELSE written
    /\ UNCHANGED notAdminVars

NextAdmin ==
    \/ admin_request

\* A request that carries no token of a registered user.
Unauthenticated(req) == req.cookie # "valid" /\ req.bearer # "valid"

\* C25: every admin route rejects an unauthenticated request, with a redirect
\* to the login page if Accept contains text/html and a 401 otherwise, and
\* writes nothing to storage for it.
C25_AdminRoutesRequireAuth ==
    (http.status # "none" /\ Unauthenticated(http.request)) =>
        /\ http.status = IF http.request.html THEN "307 /admin/login" ELSE "401"
        /\ ~http.wrote

(***************************************************************************)
(* EventRouter (core/events.py): subscribe and dispatch, called by         *)
(* concurrent asyncio tasks.  A task is suspended only at an await: at the *)
(* lock of subscribe and while a handler it awaits is running.             *)
(***************************************************************************)

\* subscribe calls explored, those made by handlers included.
MaxSubscribes == 2
\* dispatch calls explored.
MaxDispatches == 2
Tasks == {1, 2}
EventTypes == {"greeted", "left"}
Handlers == {"h1", "h2"}
Payloads == {"U1", "U2"}

\* A task outside any router call.
NoCall ==
    [pc |-> "idle", op |-> "none", evt |-> "none", payload |-> "none", sub |-> <<>>,
     ret |-> "none", listeners |-> <<>>, k |-> 0, log |-> <<>>, atCall |-> <<>>,
     added |-> <<>>, raced |-> FALSE]

\* EventRouter.__init__: an empty defaultdict(list) and a free lock.
RouterInit ==
    /\ subscribers = <<>>
    /\ lock = 0
    /\ task = [t \in Tasks |-> NoCall]
    /\ nsubs = 0
    /\ ndisps = 0
    /\ subscribed = [e \in EventTypes |-> <<>>]
    /\ issued = [c \in EventTypes \X Handlers |-> 0]

\* A task may issue a router call when it is in none.
Free(t) == task[t].pc \in {"idle", "returned", "raised"}

\* self._subscribers.get(event_type, ()): the list, or () without an entry.
Get(tbl, e) == IF e \in DOMAIN tbl THEN tbl[e] ELSE <<>>

\* self._subscribers[event_type].append(handler): the defaultdict creates the
\* entry on first use, then the handler goes to the end of the list.
PrependHandler(tbl, e, h) ==
    [x \in DOMAIN tbl \cup {e} |-> IF x = e THEN <<h>> \o Get(tbl, e) ELSE tbl[x]]
AppendIfAbsent(tbl, e, h) ==
    [x \in DOMAIN tbl \cup {e} |->
        IF x = e
        THEN IF \E n \in 1..Len(Get(tbl, e)) : Get(tbl, e)[n] = h
             THEN tbl[e]
             ELSE Append(Get(tbl, e), h)
        ELSE tbl[x]]
AppendHandler(tbl, e, h) ==
    [x \in DOMAIN tbl \cup {e} |-> IF x = e THEN Append(Get(tbl, e), h) ELSE tbl[x]]

\* The table after dispatch has looked the event type up: .get() on a
\* defaultdict does not create the missing entry.
TableAfterIndexing(tbl, e) == [x \in DOMAIN tbl \cup {e} |-> Get(tbl, e)]
TableAfterGet(tbl, e) == tbl

\* The list dispatch iterates: the copy list(...) made when dispatch was called.
LiveListeners(t) == Get(subscribers, task[t].evt)
Listeners(t) == task[t].listeners

\* `await handler(event_type, payload)` raised: dispatch has no handler, the
\* exception ends the call and reaches the caller.
HandlerRaiseCaught(r) ==
    [r EXCEPT !.pc = "dispatch", !.k = @ + 1,
              !.log = Append(@, <<r.log[Len(r.log)][1], r.evt, r.payload, "raise">>)]
HandlerRaisePropagates(r) ==
    [r EXCEPT !.pc = "raised",
              !.log = Append(@, <<r.log[Len(r.log)][1], r.evt, r.payload, "raise">>)]

\* A task calls subscribe(event_type, handler) and reaches `async with self._lock`.
subscribe_call(t) ==
    /\ Free(t)
    /\ nsubs < MaxSubscribes
    /\ \E e \in EventTypes, h \in Handlers :
        /\ task' = [task EXCEPT ![t] = [NoCall EXCEPT !.pc = "acquire", !.op = "subscribe",
                                                       !.sub = <<e, h>>, !.ret = "returned"]]
        /\ issued' = [issued EXCEPT ![<<e, h>>] = @ + 1]
    /\ nsubs' = nsubs + 1
    /\ UNCHANGED <<subscribers, lock, ndisps, subscribed>>
    /\ UNCHANGED notRouterVars

\* The task acquires the lock once it is free.
subscribe_acquire(t) ==
    /\ task[t].pc = "acquire"
    /\ lock = 0
    /\ lock' = t
    /\ task' = [task EXCEPT ![t].pc = "locked",
                            ![t].raced = \E u \in Tasks \ {t} : task[u].pc = "acquire"]
    /\ UNCHANGED <<subscribers, nsubs, ndisps, subscribed, issued>>
    /\ UNCHANGED notRouterVars

\* The body of subscribe under the lock, and the release on leaving it. A
\* subscribe called by a handler resumes that handler.
subscribe_append(t) ==
    /\ task[t].pc = "locked"
    /\ lock = t
    /\ subscribers' = AppendHandler(subscribers, task[t].sub[1], task[t].sub[2])
    /\ subscribed' = [subscribed EXCEPT ![task[t].sub[1]] = Append(@, task[t].sub[2])]
    /\ lock' = 0
    /\ task' = [task EXCEPT ![t].pc = task[t].ret,
                            ![t].added = IF task[t].ret = "handler"
                                         THEN Append(@, task[t].sub) ELSE @]
    /\ UNCHANGED <<nsubs, ndisps, issued>>
    /\ UNCHANGED notRouterVars

\* The lock once dispatch has been called: dispatch never touches self._lock,
\* so it is as it was while the handlers run.
DispatchHoldsLock(t) == t
LockAfterDispatchCall(t) == lock

\* A task calls dispatch(event_type, payload): the snapshot is taken at once.
dispatch_call(t) ==
    /\ Free(t)
    /\ ndisps < MaxDispatches
    /\ \E e \in EventTypes, p \in Payloads :
        /\ task' = [task EXCEPT ![t] = [NoCall EXCEPT !.pc = "dispatch", !.op = "dispatch",
                                                       !.evt = e, !.payload = p,
                                                       !.listeners = Get(subscribers, e),
                                                       !.k = 1,
                                                       !.atCall = subscribed[e]]]
        /\ subscribers' = TableAfterGet(subscribers, e)
    /\ lock' = LockAfterDispatchCall(t)
    /\ ndisps' = ndisps + 1
    /\ UNCHANGED <<nsubs, subscribed, issued>>
    /\ UNCHANGED notRouterVars

\* The loop of dispatch calls the next handler and awaits it.
dispatch_invoke(t) ==
    /\ task[t].pc = "dispatch"
    /\ task[t].k <= Len(Listeners(t))
    /\ task' = [task EXCEPT ![t].pc = "handler",
                            ![t].log = Append(@, <<Listeners(t)[task[t].k], task[t].evt,
                                                    task[t].payload, "call">>)]
    /\ UNCHANGED <<subscribers, lock, nsubs, ndisps, subscribed, issued>>
    /\ UNCHANGED notRouterVars

\* The awaited handler returns.
handler_return(t) ==
    /\ task[t].pc = "handler"
    /\ task' = [task EXCEPT ![t].pc = "dispatch", ![t].k = @ + 1,
                            ![t].log = Append(@, <<task[t].log[Len(task[t].log)][1], task[t].evt,
                                                    task[t].payload, "ret">>)]
    /\ UNCHANGED <<subscribers, lock, nsubs, ndisps, subscribed, issued>>
    /\ UNCHANGED notRouterVars

\* The awaited handler raises.
handler_raise(t) ==
    /\ task[t].pc = "handler"
    /\ task' = [task EXCEPT ![t] = HandlerRaisePropagates(task[t])]
    /\ UNCHANGED <<subscribers, lock, nsubs, ndisps, subscribed, issued>>
    /\ UNCHANGED notRouterVars

\* The running handler itself calls subscribe.
handler_subscribe(t) ==
    /\ task[t].pc = "handler"
    /\ nsubs < MaxSubscribes
    /\ \E e \in EventTypes, h \in Handlers :
        /\ task' = [task EXCEPT ![t].pc = "acquire", ![t].sub = <<e, h>>, ![t].ret = "handler"]
        /\ issued' = [issued EXCEPT ![<<e, h>>] = @ + 1]
    /\ nsubs' = nsubs + 1
    /\ UNCHANGED <<subscribers, lock, ndisps, subscribed>>
    /\ UNCHANGED notRouterVars

\* The loop of dispatch is exhausted: dispatch returns.
dispatch_return(t) ==
    /\ task[t].pc = "dispatch"
    /\ task[t].k > Len(Listeners(t))
    /\ task' = [task EXCEPT ![t].pc = "returned"]
    /\ UNCHANGED <<subscribers, lock, nsubs, ndisps, subscribed, issued>>
    /\ UNCHANGED notRouterVars

NextRouter ==
    \E t \in Tasks :
        \/ subscribe_call(t)
        \/ subscribe_acquire(t)
        \/ subscribe_append(t)
        \/ dispatch_call(t)
        \/ dispatch_invoke(t)
        \/ handler_return(t)
        \/ handler_raise(t)
        \/ handler_subscribe(t)
        \/ dispatch_return(t)

\* The lifecycle variables while only the router is exercised.
BootDone ==
    /\ plugins = <<>>
    /\ pc = "serving"
    /\ idx = 1
    /\ step = 1
    /\ running = {}
    /\ calls = <<>>
    /\ auth_initialized = TRUE
    /\ storage_state = "initialised"
    /\ socket_task = "running"

(***************************************************************************)
(* Properties of the event router.                                         *)
(***************************************************************************)

\* The handler invocations ("call" entries) of a dispatch log.
Invocations(log) == SelectSeq(log, LAMBDA c : c[4] = "call")

\* How often h occurs in the list s.
Count(s, h) == Len(SelectSeq(s, LAMBDA x : x = h))

\* The log of a dispatch that calls every handler subscribed when it was called,
\* in subscription order, each completing before the next is called.
ExpectedLog(r) ==
    [n \in 1..(2 * Len(r.atCall)) |->
        <<r.atCall[(n + 1) \div 2], r.evt, r.payload, IF n % 2 = 1 THEN "call" ELSE "ret">>]

\* C6: a dispatch invokes the handlers subscribed before it exactly once each,
\* in the order they were subscribed, each with the dispatched event type and
\* payload, and each completes before the next is invoked: up to a raise, the
\* log of every dispatch is a prefix of call(h1), ret(h1), call(h2), ret(h2), ...
\* over the handlers in subscription order, and the whole of it when dispatch
\* returns.
C6_DispatchInSubscriptionOrder ==
    \A t \in Tasks :
        task[t].op = "dispatch" =>
            /\ \A n \in 1..Len(task[t].log) :
                task[t].log[n][4] # "raise" =>
                    /\ n <= Len(ExpectedLog(task[t]))
                    /\ task[t].log[n] = ExpectedLog(task[t])[n]
            /\ task[t].pc = "returned" => task[t].log = ExpectedLog(task[t])

\* C6 witness: a dispatch returned after invoking two different handlers.
C6_Witness ==
    \E t \in Tasks :
        /\ task[t].op = "dispatch"
        /\ task[t].pc = "returned"
        /\ Len(task[t].atCall) >= 2
        /\ task[t].atCall[1] # task[t].atCall[2]
        /\ Len(task[t].log) = 2 * Len(task[t].atCall)

\* The dispatch of task t had a handler subscribe a listener for the event type
\* being dispatched.
SubscribedOwnEvent(t) ==
    /\ task[t].op = "dispatch"
    /\ \E n \in 1..Len(task[t].added) : task[t].added[n][1] = task[t].evt

\* C7: dispatch works on a snapshot. When a handler subscribes a listener for
\* the event type being dispatched, the round still invokes only the handlers
\* that were subscribed when dispatch was called, position by position, and
\* returns after the last of them although the list has grown.
C7_DispatchSnapshot ==
    \A t \in Tasks :
        SubscribedOwnEvent(t) =>
            /\ \A m \in 1..Len(Invocations(task[t].log)) :
                /\ m <= Len(task[t].atCall)
                /\ Invocations(task[t].log)[m][1] = task[t].atCall[m]
            /\ task[t].pc = "returned" =>
                /\ Len(Invocations(task[t].log)) = Len(task[t].atCall)
                /\ Len(Get(subscribers, task[t].evt)) > Len(task[t].atCall)

\* C7 witness: a round in which a handler subscribed for the same event type
\* has returned, and a later dispatch of that type has invoked a listener
\* beyond those of the first round.
C7_Witness ==
    \E t, u \in Tasks :
        /\ SubscribedOwnEvent(t)
        /\ task[t].pc = "returned"
        /\ task[u].op = "dispatch"
        /\ task[u].evt = task[t].evt
        /\ Len(Invocations(task[u].log)) > Len(task[t].atCall)

\* The state part of C8: a raise is the last entry of a dispatch log, the call
\* has ended with the exception, and exactly the first k handlers were invoked,
\* k being the position of the raising handler in the snapshot.
C8_RaiseEndsDispatch ==
    \A t \in Tasks :
        \A n \in 1..Len(task[t].log) :
            task[t].log[n][4] = "raise" =>
                /\ n = Len(task[t].log)
                /\ task[t].pc = "raised"
                /\ task[t].k <= Len(task[t].listeners)
                /\ Len(Invocations(task[t].log)) = task[t].k
                /\ task[t].log[n][1] = task[t].listeners[task[t].k]

\* C8: dispatch does not catch handler exceptions. When the k-th handler of
\* the snapshot raises, the call ends with the exception, the handlers after k
\* are not invoked, and the step leaves the subscriber table unchanged.
C8_HandlerRaisePropagates ==
    [][/\ C8_RaiseEndsDispatch'
       /\ \A t \in Tasks :
            (task[t].pc = "handler" /\ Len(task'[t].log) > Len(task[t].log)
                /\ task'[t].log[Len(task'[t].log)][4] = "raise")
            => subscribers' = subscribers]_vars

\* C8 witness: a dispatch ended by a raise with handlers of the snapshot left.
C8_Witness ==
    \E t \in Tasks :
        /\ task[t].pc = "raised"
        /\ task[t].k < Len(task[t].listeners)

\* The state part of C9: the table has an entry exactly for the event types
\* subscribed to, and a dispatch of a type without subscribers invokes nothing
\* and cannot raise.
C9_NoSubscribersState ==
    /\ DOMAIN subscribers = {e \in EventTypes : subscribed[e] # <<>>}
    /\ \A t \in Tasks :
        (task[t].op = "dispatch" /\ task[t].atCall = <<>>) =>
            /\ task[t].pc \in {"dispatch", "returned"}
            /\ task[t].log = <<>>

\* C9: dispatching an event type without subscribers returns without error,
\* invokes no handler and leaves the subscriber table as it was: every step of
\* such a dispatch leaves the table unchanged (no entry is created) and the
\* step after the call is the return.
C9_DispatchNoSubscribers ==
    [][/\ C9_NoSubscribersState'
       /\ \A t \in Tasks :
            (task'[t].op = "dispatch" /\ task'[t].atCall = <<>> /\ task'[t] # task[t]) =>
                /\ subscribers' = subscribers
                /\ task[t].pc = "dispatch" => task'[t].pc = "returned"]_vars

\* C9 witness: a dispatch of a type that has no entry returned, next to an
\* entry for another type.
C9_Witness ==
    \E t \in Tasks :
        /\ task[t].op = "dispatch"
        /\ task[t].pc = "returned"
        /\ task[t].atCall = <<>>
        /\ task[t].evt \notin DOMAIN subscribers
        /\ DOMAIN subscribers # {}

\* The subscribe calls of <<e, h>> that have been issued and not yet taken effect.
Pending(e, h) == Cardinality({t \in Tasks : task[t].pc \in {"acquire", "locked"} /\ task[t].sub = <<e, h>>})

\* The state part of C10: each handler is in the list of its event type once
\* per subscribe call that has taken effect, whatever the interleaving; with no
\* call in flight that is once per call issued.
C10_SubscriptionsCounted ==
    \A e \in EventTypes, h \in Handlers :
        Count(Get(subscribers, e), h) = issued[<<e, h>>] - Pending(e, h)

\* C10: subscribe is safe under concurrency. No subscription is lost or
\* duplicated, and a step leaves the list of every event type that no
\* subscribe took effect on exactly as it was.
C10_SubscribeConcurrent ==
    [][/\ C10_SubscriptionsCounted'
       /\ \A e \in EventTypes :
            subscribed'[e] = subscribed[e] => Get(subscribers', e) = Get(subscribers, e)]_vars

\* C10 witness: all subscribe calls have completed, one of them acquired the
\* lock while another task was at it, and one handler was subscribed twice to
\* one event type.
C10_Witness ==
    /\ \A t \in Tasks : task[t].pc \notin {"acquire", "locked", "handler", "dispatch"}
    /\ \E t \in Tasks : task[t].raced
    /\ \E e \in EventTypes, h \in Handlers : issued[<<e, h>>] = 2 /\ Count(Get(subscribers, e), h) = 2

\* The dispatch of task t is under way (a subscribe called by one of its
\* handlers included).
Dispatching(t) == task[t].op = "dispatch" /\ task[t].pc \notin {"returned", "raised"}

\* C11: subscribe inside dispatch cannot deadlock. No task holds the router
\* lock while a handler it awaits is running; a handler that calls subscribe
\* gets the lock and is resumed; and every dispatch call ends (returns, or
\* raises with its handler), given that every handler terminates.
C11_SubscribeInDispatchTerminates ==
    /\ [](\A t \in Tasks : task[t].pc = "handler" => lock # t)
    /\ \A t \in Tasks :
        /\ (task[t].pc = "acquire" /\ task[t].ret = "handler") ~> (task[t].pc = "handler")
        /\ Dispatching(t) ~> (task[t].op = "dispatch" /\ task[t].pc \in {"returned", "raised"})

\* C11 witness: a dispatch has returned after one of its handlers subscribed
\* a listener, here for the event type being dispatched.
C11_Witness ==
    \E t \in Tasks :
        /\ task[t].op = "dispatch"
        /\ task[t].pc = "returned"
        /\ Len(task[t].added) = 1
        /\ task[t].added[1][1] = task[t].evt
        /\ lock = 0

(***************************************************************************)
(* Storage (core/storage.py): InMemoryStorage and SQLModelStorage, called  *)
(* by concurrent asyncio tasks.                                            *)
(***************************************************************************)

\* Storage calls explored.
MaxStoreCalls == 3

Backends == {"memory", "sql"}
Pairs == {<<"hello", "settings">>, <<"automod", "settings">>}
Values == {"v1", "v2"}

\* No entry in the dict, no row in the table.
NoRow == <<>>

\* json.dumps(value) and json.loads(record.value) on the values explored.
json_dumps(v) == <<"json", v>>
json_loads(payload) == payload[2]

\* What the backend keeps for a value (the dict a reference to the object, the
\* table its JSON text), and what get gives back for what is kept.
Stored(b, v) == IF b = "sql" THEN json_dumps(v) ELSE <<"ref", v>>
Loaded(b, kept) ==
    IF kept = NoRow THEN "null"
    ELSE IF b = "sql" THEN json_loads(kept)
    ELSE kept[2]

\* A task outside any storage call.
NoStoreCall ==
    [pc |-> "idle", op |-> "none", pair |-> <<"none", "none">>, value |-> "null",
     seen |-> FALSE, result |-> "null", status |-> "none", expected |-> "null"]

\* The storage after construction and init(), with nothing stored.
StoreInit ==
    /\ backend \in Backends
    /\ data = [p \in Pairs |-> NoRow]
    /\ slock = 0
    /\ stask = [t \in Tasks |-> NoStoreCall]
    /\ shadow = [p \in Pairs |-> "null"]
    /\ hist = <<>>

\* The storage variables while other parts are exercised.
StoreIdle ==
    /\ backend = "memory"
    /\ data = [p \in Pairs |-> NoRow]
    /\ slock = 0
    /\ stask = [t \in Tasks |-> NoStoreCall]
    /\ shadow = [p \in Pairs |-> "null"]
    /\ hist = <<>>

\* self._data[(namespace, key)] = value, and the row written by set.
SetByKeyOnly(d, pair, kept) == [q \in Pairs |-> IF q[2] = pair[2] THEN kept ELSE d[q]]
DataAfterSet(d, pair, kept) == [d EXCEPT ![pair] = kept]

\* self._data.pop((namespace, key), None): the outcome of delete in memory.
PopItem(d, pair) == [status |-> "ok", data |-> [d EXCEPT ![pair] = NoRow]]

\* A task calls storage.get, storage.set or storage.delete.
store_call(t) ==
    /\ stask[t].pc \in {"idle", "done"}
    /\ Len(hist) < MaxStoreCalls
    /\ \E op \in {"get", "set", "delete"}, pair \in Pairs, v \in Values :
        /\ op # "set" => v = "v1"
        /\ stask' = [stask EXCEPT ![t] = [NoStoreCall EXCEPT !.pc = "start", !.op = op, !.pair = pair,
                                                             !.value = IF op = "set" THEN v ELSE "null"]]
        /\ hist' = Append(hist, [op |-> op, pair |-> pair, value |-> IF op = "set" THEN v ELSE "null"])
    /\ UNCHANGED <<backend, data, slock, shadow>>
    /\ UNCHANGED notStoreVars

\* InMemoryStorage: `async with self._lock` is entered.
mem_acquire(t) ==
    /\ backend = "memory"
    /\ stask[t].pc = "start"
    /\ slock = 0
    /\ slock' = t
    /\ stask' = [stask EXCEPT ![t].pc = "locked"]
    /\ UNCHANGED <<backend, data, shadow, hist>>
    /\ UNCHANGED notStoreVars

\* InMemoryStorage: the body under the lock, and the lock released.
mem_body(t) ==
    /\ backend = "memory"
    /\ stask[t].pc = "locked"
    /\ LET c == stask[t]
       IN  CASE c.op = "get" ->
                  /\ stask' = [stask EXCEPT ![t].pc = "done", ![t].status = "ok",
                                            ![t].result = Loaded(backend, data[c.pair]),
                                            ![t].expected = shadow[c.pair]]
                  /\ UNCHANGED <<data, shadow>>
             [] c.op = "set" ->
                  /\ data' = DataAfterSet(data, c.pair, Stored(backend, c.value))
                  /\ shadow' = [shadow EXCEPT ![c.pair] = c.value]
                  /\ stask' = [stask EXCEPT ![t].pc = "done", ![t].status = "ok"]
             [] c.op = "delete" ->
                  /\ data' = PopItem(data, c.pair).data
                  /\ shadow' = IF PopItem(data, c.pair).status = "ok"
                               THEN [shadow EXCEPT ![c.pair] = "null"] ELSE shadow
                  /\ stask' = [stask EXCEPT ![t].pc = "done", ![t].status = PopItem(data, c.pair).status,
                                            ![t].seen = data[c.pair] # NoRow]
    /\ slock' = 0
    /\ UNCHANGED <<backend, hist>>
    /\ UNCHANGED notStoreVars

\* session.get(KeyValue, (namespace, key)) of SQLModelStorage.get, and its return.
sql_get(t) ==
    /\ backend = "sql"
    /\ stask[t].pc = "start"
    /\ stask[t].op = "get"
    /\ stask' = [stask EXCEPT ![t].pc = "done", ![t].status = "ok",
                              ![t].result = Loaded(backend, data[stask[t].pair]),
                              ![t].expected = shadow[stask[t].pair]]
    /\ UNCHANGED <<backend, data, slock, shadow, hist>>
    /\ UNCHANGED notStoreVars

\* session.get(KeyValue, (namespace, key)) of set and delete: the session sees
\* the committed row or none; delete returns at once if there is none.
sql_read(t) ==
    /\ backend = "sql"
    /\ stask[t].pc = "start"
    /\ stask[t].op \in {"set", "delete"}
    /\ LET found == data[stask[t].pair] # NoRow
       IN  IF stask[t].op = "delete" /\ ~found
           THEN stask' = [stask EXCEPT ![t].pc = "done", ![t].status = "ok", ![t].seen = FALSE]
           ELSE stask' = [stask EXCEPT ![t].pc = "commit", ![t].seen = found]
    /\ UNCHANGED <<backend, data, slock, shadow, hist>>
    /\ UNCHANGED notStoreVars

\* await session.commit() of set and delete: the INSERT of a row another session
\* committed meanwhile violates the primary key, the UPDATE of a row deleted
\* meanwhile matches no row; both raise. A DELETE that matches no row passes.
sql_commit(t) ==
    /\ backend = "sql"
    /\ stask[t].pc = "commit"
    /\ LET c == stask[t]
           found == data[c.pair] # NoRow
       IN  IF c.op = "set"
           THEN IF c.seen = found
                THEN /\ data' = DataAfterSet(data, c.pair, Stored(backend, c.value))
                     /\ shadow' = [shadow EXCEPT ![c.pair] = c.value]
                     /\ stask' = [stask EXCEPT ![t].pc = "done", ![t].status = "ok"]
                ELSE /\ stask' = [stask EXCEPT ![t].pc = "done", ![t].status = "error"]
                     /\ UNCHANGED <<data, shadow>>
           ELSE /\ data' = [data EXCEPT ![c.pair] = NoRow]
                /\ shadow' = [shadow EXCEPT ![c.pair] = "null"]
                /\ stask' = [stask EXCEPT ![t].pc = "done", ![t].status = "ok"]
    /\ UNCHANGED <<backend, slock, hist>>
    /\ UNCHANGED notStoreVars

NextStore ==
    \E t \in Tasks :
        \/ store_call(t)
        \/ mem_acquire(t)
        \/ mem_body(t)
        \/ sql_get(t)
        \/ sql_read(t)
        \/ sql_commit(t)

(***************************************************************************)
(* The Socket Mode task: start_services creates it before it awaits        *)
(* plugin_manager.startup (app.py 113-114). The listeners were registered  *)
(* with the Slack app by register_all at import.                           *)
(***************************************************************************)

\* No event delivered yet.
SocketIdle == delivered = {}

\* The event loop can run the socket task: start_services is suspended in a hook
\* it awaits, or has returned.
TaskMayRun ==
    \/ pc \in {"startup", "shutdown"} /\ running # {}
    \/ pc = "serving"

\* socket_mode_handler.start_async() receives an event and the Slack app calls
\* the listener that the plugin at position i registered.
socket_deliver ==
    /\ socket_task = "running"
    /\ TaskMayRun
    /\ \E i \in 1..Len(plugins) :
        delivered' = delivered \cup {<<i, Logged(<<"on_startup", i, "ret">>)>>}
    /\ UNCHANGED notSocketVars

NextSocket ==
    \/ NextBoot
    \/ socket_deliver

\* C31: no event reaches a plugin's listener before on_startup of that plugin
\* has completed.
C31_NoEventBeforeStartup == \A d \in delivered : d[2]

(***************************************************************************)
(* RateLimiter (security/rate_limit.py) and the login route                *)
(* /admin/auth/set-token (app.py 144-194).                                 *)
(***************************************************************************)

\* rate_limiter = RateLimiter(max_attempts=5, lockout_duration=900): the lockout
\* is explored with a duration of a few seconds.
max_attempts == 5
lockout_duration == 2

\* Timestamps are floats: the clock is counted in ticks, this many to a second.
TicksPerSecond == 2
\* The clock is followed until just after a lockout that began at 0 has expired.
MaxTime == lockout_duration * TicksPerSecond + 1

\* Requests to the login route explored.
MaxLogins == 6

\* request.client.host
IPs == {"203.0.113.7"}

\* What await request.json() gives: no JSON, JSON without "token", or a token.
Bodies == {"bad_json", "no_token"} \cup Tokens

\* The awaits at which a request is suspended after the rate-limit check.
Awaits ==
    [ip : IPs, at : {"json"}, token : {"none"}]
        \cup [ip : IPs, at : {"verify_token"}, token : Tokens]
        \cup [ip : IPs, at : {"check_user_exists"}, token : {t \in Tokens : verify_token(t)}]

\* One request more, or one less, suspended at w.
Suspend(bag, w) == [bag EXCEPT ![w] = @ + 1]
Resume(bag, w) == [bag EXCEPT ![w] = @ - 1]

\* int(x) of a non-negative number of ticks, in seconds.
int(ticks) == ticks \div TicksPerSecond

\* RateLimiter.is_rate_limited(ip) at time t: <<is_limited, seconds_remaining,
\* self.attempts afterwards>>.
is_rate_limited(att, ip, t) ==
    IF ip \notin DOMAIN att THEN <<FALSE, 0, att>>
    ELSE IF att[ip][1] < max_attempts THEN <<FALSE, 0, att>>
    ELSE LET time_since_last == t - att[ip][2]
         IN  IF time_since_last >= lockout_duration * TicksPerSecond
             THEN <<FALSE, 0, [i \in DOMAIN att \ {ip} |-> att[i]]>>
             ELSE <<TRUE, int(lockout_duration * TicksPerSecond - time_since_last), att>>

\* self.attempts.get(ip, (0, 0))
AttemptsGet(att, ip) == IF ip \in DOMAIN att THEN att[ip] ELSE <<0, 0>>

\* RateLimiter.record_failure(ip) at time t.
RecordKeepsTimestamp(att, ip, t) ==
    [i \in DOMAIN att \cup {ip} |->
        IF i = ip THEN <<AttemptsGet(att, ip)[1] + 1, AttemptsGet(att, ip)[2]>> ELSE att[i]]
record_failure(att, ip, t) ==
    [i \in DOMAIN att \cup {ip} |->
        IF i = ip THEN <<AttemptsGet(att, ip)[1] + 1, t>> ELSE att[i]]

\* RateLimiter.reset_attempts(ip)
ResetKeepsEntry(att, ip) == att
reset_attempts(att, ip) == [i \in DOMAIN att \ {ip} |-> att[i]]

\* What a step of set_auth_token did: the ip, the await it ended at, the status
\* it answered (0 while the request goes on) and the seconds of a 429.
Step(ip, at, status, retry) == [ip |-> ip, at |-> at, status |-> status, retry |-> retry]
NoStep == Step("none", "none", 0, 0)

\* The rate limiter is empty and no request has arrived.
LoginInit ==
    /\ attempts = <<>>
    /\ now = 0
    /\ inflight = [w \in Awaits |-> 0]
    /\ nlogins = 0
    /\ failures = [i \in IPs |-> <<0, 0>>]
    /\ last_step = NoStep

\* The login variables while other parts are exercised.
LoginIdle == LoginInit

\* History kept beside record_failure and beside the removal of the entry.
FailedAfterFailure(ip) == [failures EXCEPT ![ip] = <<@[1] + 1, now>>]
FailedAfterReset(ip) == [failures EXCEPT ![ip] = <<0, 0>>]

\* A request arrives: set_auth_token runs up to `await request.json()`, or
\* raises 429 when the ip is rate limited (app.py 147-156).
login_check ==
    /\ nlogins < MaxLogins
    /\ \E ip \in IPs :
        LET r == is_rate_limited(attempts, ip, now)
        IN  /\ attempts' = r[3]
            /\ failures' = IF ip \in DOMAIN attempts /\ ip \notin DOMAIN r[3]
                         THEN FailedAfterReset(ip) ELSE failures
            /\ IF r[1]
               THEN /\ last_step' = Step(ip, "is_rate_limited", 429, r[2])
                    /\ UNCHANGED inflight
               ELSE /\ last_step' = Step(ip, "is_rate_limited", 0, r[2])
                    /\ inflight' = Suspend(inflight, [ip |-> ip, at |-> "json", token |-> "none"])
    /\ nlogins' = nlogins + 1
    /\ UNCHANGED now
    /\ UNCHANGED notLoginVars

\* request.json() returns or raises: 400 for a body that is no JSON or has no
\* token, else on to `await FirebaseAuth.verify_token(id_token)` (app.py 156-163).
login_json ==
    /\ \E w \in Awaits, body \in Bodies :
        /\ w.at = "json"
        /\ inflight[w] > 0
        /\ IF body \in Tokens
           THEN /\ inflight' = Suspend(Resume(inflight, w),
                                       [ip |-> w.ip, at |-> "verify_token", token |-> body])
                /\ last_step' = Step(w.ip, "json", 0, 0)
           ELSE /\ inflight' = Resume(inflight, w)
                /\ last_step' = Step(w.ip, "json", 400, 0)
    /\ UNCHANGED <<attempts, now, nlogins, failures>>
    /\ UNCHANGED notLoginVars

\* verify_token returns: None records a failure and raises 401, a decoded token
\* goes on to `await FirebaseAuth.check_user_exists(uid)` (app.py 163-169).
login_verify ==
    /\ \E w \in Awaits :
        /\ w.at = "verify_token"
        /\ inflight[w] > 0
        /\ IF verify_token(w.token)
           THEN /\ inflight' = Suspend(Resume(inflight, w),
                                       [ip |-> w.ip, at |-> "check_user_exists", token |-> w.token])
                /\ last_step' = Step(w.ip, "verify_token", 0, 0)
                /\ UNCHANGED <<attempts, failures>>
           ELSE /\ inflight' = Resume(inflight, w)
                /\ attempts' = record_failure(attempts, w.ip, now)
                /\ failures' = FailedAfterFailure(w.ip)
                /\ last_step' = Step(w.ip, "verify_token", 401, 0)
    /\ UNCHANGED <<now, nlogins>>
    /\ UNCHANGED notLoginVars

\* check_user_exists returns: False records a failure and raises 403, True
\* resets the attempts and answers with the cookie (app.py 169-183).
login_exists ==
    /\ \E w \in Awaits :
        /\ w.at = "check_user_exists"
        /\ inflight[w] > 0
        /\ inflight' = Resume(inflight, w)
        /\ IF check_user_exists(w.token)
           THEN /\ attempts' = reset_attempts(attempts, w.ip)
                /\ failures' = FailedAfterReset(w.ip)
                /\ last_step' = Step(w.ip, "check_user_exists", 200, 0)
           ELSE /\ attempts' = record_failure(attempts, w.ip, now)
                /\ failures' = FailedAfterFailure(w.ip)
                /\ last_step' = Step(w.ip, "check_user_exists", 403, 0)
    /\ UNCHANGED <<now, nlogins>>
    /\ UNCHANGED notLoginVars

\* Time passes.
tick ==
    /\ now < MaxTime
    /\ now' = now + 1
    /\ UNCHANGED <<attempts, inflight, nlogins, failures, last_step>>
    /\ UNCHANGED notLoginVars

NextLogin ==
    \/ login_check
    \/ login_json
    \/ login_verify
    \/ login_exists
    \/ tick

\* The lockout in ticks.
LockoutTicks == lockout_duration * TicksPerSecond

\* What is_rate_limited answered in the step just taken, a rate-limit check.
Limited == last_step'.status = 429
Remaining == last_step'.retry

\* C32: a check of an ip with max_attempts or more failures recorded since the
\* last reset answers (true, remaining), 0 <= remaining <= lockout_duration, and
\* keeps the entry while less than lockout_duration has passed since the last
\* failure; at or after that time it deletes the entry and answers (false, 0).
\* An ip with fewer failures recorded is not reported as limited.
C32_Lockout ==
    [][nlogins' = nlogins + 1 =>
        LET ip == last_step'.ip
        IN  IF failures[ip][1] >= max_attempts
            THEN IF now - failures[ip][2] < LockoutTicks
                 THEN /\ Limited
                      /\ Remaining \in 0..lockout_duration
                      /\ attempts' = attempts
                 ELSE /\ ~Limited
                      /\ Remaining = 0
                      /\ ip \notin DOMAIN attempts'
            ELSE /\ ~Limited
                 /\ Remaining = 0
                 /\ attempts' = attempts]_vars

\* C32 witness: a locked-out ip was answered 429 with less than a second to go,
\* after a failure later than time 0.
C32_Witness ==
    /\ last_step.status = 429
    /\ last_step.retry = 0
    /\ failures[last_step.ip][1] >= max_attempts
    /\ failures[last_step.ip][2] > 0

C34_AtMostMaxAttempts == \A ip \in IPs : failures[ip][1] <= max_attempts

(***************************************************************************)
(* SQLModelStorage.init, _create_tables_with_retry, close and _session     *)
(* (core/storage.py 54-112).                                               *)
(***************************************************************************)

\* Calls of init, close and get / set / delete explored, and the tasks making them.
MaxSqlCalls == 4
SqlTasks == {1, 2}

\* max_attempts = 12 in _create_tables_with_retry
retry_max_attempts == 12

\* The URL the storage is constructed with.
DatabaseUrls == {"", "sqlite+aiosqlite:///bot.db"}

\* No call has just returned.
NoReturn == <<"none", "none", FALSE>>

\* SQLModelStorage.__init__
SqlInit ==
    /\ database_url \in DatabaseUrls
    /\ engine = "None"
    /\ session_factory = FALSE
    /\ initialised = FALSE
    /\ init_lock = 0
    /\ sqlpc = [t \in SqlTasks |-> "idle"]
    /\ attempt = 0
    /\ nsql = 0
    /\ engines = 0
    /\ tables = 0
    /\ ready = FALSE
    /\ sql_ret = NoReturn

\* The SQL storage while other parts are exercised.
SqlIdle ==
    /\ database_url = ""
    /\ engine = "None"
    /\ session_factory = FALSE
    /\ initialised = FALSE
    /\ init_lock = 0
    /\ sqlpc = [t \in SqlTasks |-> "idle"]
    /\ attempt = 0
    /\ nsql = 0
    /\ engines = 0
    /\ tables = 0
    /\ ready = FALSE
    /\ sql_ret = NoReturn

\* A task calls init() and reaches `async with self._init_lock`.
sql_init_call(t) ==
    /\ nsql < MaxSqlCalls
    /\ sqlpc[t] = "idle"
    /\ sqlpc' = [sqlpc EXCEPT ![t] = "acquire"]
    /\ nsql' = nsql + 1
    /\ sql_ret' = NoReturn
    /\ UNCHANGED <<database_url, engine, session_factory, initialised, init_lock, attempt,
                   engines, tables, ready>>
    /\ UNCHANGED notSqlVars

\* `if self._initialised: return` (storage.py 64-65)
AlreadyInitialised == initialised

\* The lock is acquired and init runs to its first await: it returns when already
\* initialised, raises without a URL or a driver, creates the engine and the
\* session factory if there is none, and enters the retry loop (storage.py 63-91).
sql_init_enter(t) ==
    /\ sqlpc[t] = "acquire"
    /\ init_lock = 0
    /\ IF AlreadyInitialised
       THEN /\ sqlpc' = [sqlpc EXCEPT ![t] = "idle"]
            /\ sql_ret' = <<"init", "ok", ready>>
            /\ UNCHANGED <<engine, session_factory, init_lock, attempt, engines>>
       ELSE IF database_url = ""
       THEN /\ sqlpc' = [sqlpc EXCEPT ![t] = "idle"]
            /\ sql_ret' = <<"init", "raise", ready>>
            /\ UNCHANGED <<engine, session_factory, init_lock, attempt, engines>>
       ELSE \E out \in HookOutcomes :
            IF engine = "None" /\ out = "raise"
            THEN /\ sqlpc' = [sqlpc EXCEPT ![t] = "idle"]
                 /\ sql_ret' = <<"init", "raise", ready>>
                 /\ UNCHANGED <<engine, session_factory, init_lock, attempt, engines>>
            ELSE /\ engine' = "engine"
                 /\ session_factory' = IF engine = "None" THEN TRUE ELSE session_factory
                 /\ engines' = IF engine = "None" THEN engines + 1 ELSE engines
                 /\ init_lock' = t
                 /\ attempt' = 1
                 /\ sqlpc' = [sqlpc EXCEPT ![t] = "begin"]
                 /\ sql_ret' = NoReturn
    /\ UNCHANGED <<database_url, initialised, nsql, tables, ready>>
    /\ UNCHANGED notSqlVars

\* `if attempt == max_attempts: raise`
GivesUpNever == FALSE
GivesUp == attempt = retry_max_attempts

\* An attempt failed: the last one raises out of init, which releases the lock
\* and leaves _initialised False; the others sleep (storage.py 93-98).
AttemptFailed(t) ==
    /\ IF GivesUp
       THEN /\ sqlpc' = [sqlpc EXCEPT ![t] = "idle"]
            /\ init_lock' = 0
            /\ attempt' = 0
            /\ sql_ret' = <<"init", "raise", ready>>
       ELSE /\ sqlpc' = [sqlpc EXCEPT ![t] = "sleep"]
            /\ sql_ret' = NoReturn
            /\ UNCHANGED <<init_lock, attempt>>
    /\ UNCHANGED <<initialised, tables, ready>>

\* `async with self._engine.begin() as conn`: without an engine the attribute
\* lookup raises, which the loop treats as a failed attempt.
sql_create_begin(t) ==
    /\ sqlpc[t] = "begin"
    /\ IF engine = "None"
       THEN AttemptFailed(t)
       ELSE /\ sqlpc' = [sqlpc EXCEPT ![t] = "create_all"]
            /\ sql_ret' = NoReturn
            /\ UNCHANGED <<init_lock, attempt, initialised, tables, ready>>
    /\ UNCHANGED <<database_url, engine, session_factory, nsql, engines>>
    /\ UNCHANGED notSqlVars

\* `await conn.run_sync(SQLModel.metadata.create_all)` returns or raises; on
\* success the loop breaks and init sets _initialised (storage.py 92-100, 83).
sql_create_end(t) ==
    /\ sqlpc[t] = "create_all"
    /\ \E out \in HookOutcomes :
        IF out = "ok"
        THEN /\ initialised' = TRUE
             /\ tables' = tables + 1
             /\ ready' = TRUE
             /\ init_lock' = 0
             /\ attempt' = 0
             /\ sqlpc' = [sqlpc EXCEPT ![t] = "idle"]
             /\ sql_ret' = <<"init", "ok", ready>>
        ELSE AttemptFailed(t)
    /\ UNCHANGED <<database_url, engine, session_factory, nsql, engines>>
    /\ UNCHANGED notSqlVars

\* `await asyncio.sleep(delay)` is over: the next attempt.
sql_sleep_done(t) ==
    /\ sqlpc[t] = "sleep"
    /\ attempt' = attempt + 1
    /\ sqlpc' = [sqlpc EXCEPT ![t] = "begin"]
    /\ sql_ret' = NoReturn
    /\ UNCHANGED <<database_url, engine, session_factory, initialised, init_lock, nsql,
                   engines, tables, ready>>
    /\ UNCHANGED notSqlVars

\* A task calls close(): with an engine it awaits dispose(), else it returns.
sql_close_call(t) ==
    /\ nsql < MaxSqlCalls
    /\ sqlpc[t] = "idle"
    /\ nsql' = nsql + 1
    /\ IF engine # "None"
       THEN /\ sqlpc' = [sqlpc EXCEPT ![t] = "dispose"]
            /\ sql_ret' = NoReturn
       ELSE /\ sql_ret' = <<"close", "ok", ready>>
            /\ UNCHANGED sqlpc
    /\ UNCHANGED <<database_url, engine, session_factory, initialised, init_lock, attempt,
                   engines, tables, ready>>
    /\ UNCHANGED notSqlVars

\* dispose() returned: close clears the engine, the factory and the flag.
sql_close_end(t) ==
    /\ sqlpc[t] = "dispose"
    /\ engine' = "None"
    /\ session_factory' = FALSE
    /\ initialised' = FALSE
    /\ engines' = 0
    /\ tables' = 0
    /\ ready' = FALSE
    /\ sqlpc' = [sqlpc EXCEPT ![t] = "idle"]
    /\ sql_ret' = <<"close", "ok", ready>>
    /\ UNCHANGED <<database_url, init_lock, attempt, nsql>>
    /\ UNCHANGED notSqlVars

\* get, set or delete is called: self._session() raises without a session
\* factory, else it opens a session (storage.py 109-115).
sql_session(t) ==
    /\ nsql < MaxSqlCalls
    /\ sqlpc[t] = "idle"
    /\ nsql' = nsql + 1
    /\ sql_ret' = <<"get", IF session_factory THEN "session" ELSE "not_initialised", ready>>
    /\ UNCHANGED <<database_url, engine, session_factory, initialised, init_lock, sqlpc,
                   attempt, engines, tables, ready>>
    /\ UNCHANGED notSqlVars

NextSql ==
    \/ \E t \in SqlTasks : sql_init_call(t)
    \/ \E t \in SqlTasks : sql_init_enter(t)
    \/ \E t \in SqlTasks : sql_create_begin(t)
    \/ \E t \in SqlTasks : sql_create_end(t)
    \/ \E t \in SqlTasks : sql_sleep_done(t)
    \/ \E t \in SqlTasks : sql_close_call(t)
    \/ \E t \in SqlTasks : sql_close_end(t)
    \/ \E t \in SqlTasks : sql_session(t)

\* C35: until a close, the engine is created at most once and table creation
\* succeeds at most once, however many init calls are made; get, set and delete
\* raise the not-initialised error when no init has succeeded since the last
\* close; an init that returns leaves the storage with its session factory.
C35_InitIdempotent ==
    /\ [](engines <= 1 /\ tables <= 1)
    /\ [](sql_ret[1] = "get" /\ ~sql_ret[3] => sql_ret[2] = "not_initialised")
    /\ [](sql_ret[1] = "init" /\ sql_ret[2] = "ok" => session_factory)

\* C36: the retry loop makes at most 12 attempts; a successful attempt ends the
\* loop and init with the storage initialised; when the 12th attempt fails init
\* raises, the storage stays not initialised and the lock is free for a later
\* init.
C36_RetryTerminates ==
    /\ [](attempt <= retry_max_attempts)
    /\ [][\A t \in SqlTasks :
            sqlpc[t] \in {"begin", "create_all"} =>
                /\ tables' = tables + 1 =>
                    /\ sqlpc'[t] = "idle"
                    /\ initialised'
                    /\ sql_ret' = <<"init", "ok", ready>>
                /\ tables' = tables /\ sqlpc'[t] \notin {sqlpc[t], "create_all"}
                        /\ attempt = retry_max_attempts =>
                    /\ sqlpc'[t] = "idle"
                    /\ sql_ret'[2] = "raise"
                    /\ ~initialised'
                    /\ init_lock' = 0]_vars

\* C36 witness: the only call so far, an init that created the engine, has
\* raised out of the retry loop and left the storage not initialised.
C36_Witness ==
    /\ sql_ret = <<"init", "raise", FALSE>>
    /\ nsql = 1
    /\ engines = 1
    /\ tables = 0
    /\ ~initialised
    /\ init_lock = 0

(***************************************************************************)
(* handle_hello (plugins/hello/plugin.py 41-57) on either storage backend. *)
(***************************************************************************)

\* Invocations of handle_hello explored, and the tasks running them.
MaxHellos == 3
HelloTasks == {1, 2}

\* Empty storage, no message yet.
HelloInit ==
    /\ hello_backend \in Backends
    /\ has_counter = FALSE
    /\ greetings_sent = 0
    /\ hpc = [t \in HelloTasks |-> "idle"]
    /\ current = [t \in HelloTasks |-> 0]
    /\ row_seen = [t \in HelloTasks |-> FALSE]
    /\ nhello = 0
    /\ nsaid = 0

\* The hello plugin while other parts are exercised.
HelloIdle ==
    /\ hello_backend = "memory"
    /\ has_counter = FALSE
    /\ greetings_sent = 0
    /\ hpc = [t \in HelloTasks |-> "idle"]
    /\ current = [t \in HelloTasks |-> 0]
    /\ row_seen = [t \in HelloTasks |-> FALSE]
    /\ nhello = 0
    /\ nsaid = 0

\* An await of InMemoryStorage.get / set returns without suspending: the lock
\* is never held across an await, so acquire() takes it at once. An await of
\* SQLModelStorage suspends on the database.
StorageSuspends == hello_backend = "sql"

\* A message matching "hello" arrives: a bot message returns at once, another
\* one runs to `await get_settings()` or, on memory, on to `await say(...)`.
hello_call(t) ==
    /\ nhello < MaxHellos
    /\ hpc[t] = "idle"
    /\ nhello' = nhello + 1
    /\ \E bot \in BOOLEAN :
        hpc' = [hpc EXCEPT ![t] = IF bot THEN "idle"
                                  ELSE IF StorageSuspends THEN "get_settings" ELSE "say"]
    /\ UNCHANGED <<hello_backend, has_counter, greetings_sent, current, row_seen, nsaid>>
    /\ UNCHANGED notHelloVars

\* storage.get of the settings returns: on to `await say(...)`.
hello_settings(t) ==
    /\ hpc[t] = "get_settings"
    /\ hpc' = [hpc EXCEPT ![t] = "say"]
    /\ UNCHANGED <<hello_backend, has_counter, greetings_sent, current, row_seen, nhello, nsaid>>
    /\ UNCHANGED notHelloVars

\* say(...) returns, and the greeting is sent, or raises, and the handler ends.
\* After a greeting the get and the set of the counter follow without a
\* suspension on memory; on sql the handler awaits the get.
hello_say(t) ==
    /\ hpc[t] = "say"
    /\ \E out \in HookOutcomes :
        IF out = "raise"
        THEN /\ hpc' = [hpc EXCEPT ![t] = "idle"]
             /\ UNCHANGED <<has_counter, greetings_sent, current, nsaid>>
        ELSE /\ nsaid' = nsaid + 1
             /\ IF StorageSuspends
                THEN /\ hpc' = [hpc EXCEPT ![t] = "get"]
                     /\ UNCHANGED <<has_counter, greetings_sent, current>>
                ELSE /\ hpc' = [hpc EXCEPT ![t] = "idle"]
                     /\ current' = [current EXCEPT ![t] = greetings_sent]
                     /\ greetings_sent' = greetings_sent + 1
                     /\ has_counter' = TRUE
    /\ UNCHANGED <<hello_backend, row_seen, nhello>>
    /\ UNCHANGED notHelloVars

\* current = await storage.get(NAMESPACE, COUNTER_KEY) or 0
hello_get(t) ==
    /\ hpc[t] = "get"
    /\ current' = [current EXCEPT ![t] = greetings_sent]
    /\ hpc' = [hpc EXCEPT ![t] = "set"]
    /\ UNCHANGED <<hello_backend, has_counter, greetings_sent, row_seen, nhello, nsaid>>
    /\ UNCHANGED notHelloVars

\* SQLModelStorage.set: `existing = await session.get(KeyValue, ...)`
hello_set_read(t) ==
    /\ hpc[t] = "set"
    /\ row_seen' = [row_seen EXCEPT ![t] = has_counter]
    /\ hpc' = [hpc EXCEPT ![t] = "commit"]
    /\ UNCHANGED <<hello_backend, has_counter, greetings_sent, current, nhello, nsaid>>
    /\ UNCHANGED notHelloVars

\* SQLModelStorage.set: `await session.commit()` of current + 1. The INSERT of a
\* call that saw no row fails when a row exists by now.
hello_set_commit(t) ==
    /\ hpc[t] = "commit"
    /\ hpc' = [hpc EXCEPT ![t] = "idle"]
    /\ IF ~row_seen[t] /\ has_counter
       THEN UNCHANGED <<has_counter, greetings_sent>>
       ELSE /\ has_counter' = TRUE
            /\ greetings_sent' = current[t] + 1
    /\ UNCHANGED <<hello_backend, current, row_seen, nhello, nsaid>>
    /\ UNCHANGED notHelloVars

NextHello ==
    \/ \E t \in HelloTasks : hello_call(t)
    \/ \E t \in HelloTasks : hello_settings(t)
    \/ \E t \in HelloTasks : hello_say(t)
    \/ \E t \in HelloTasks : hello_get(t)
    \/ \E t \in HelloTasks : hello_set_read(t)
    \/ \E t \in HelloTasks : hello_set_commit(t)

\* C37: once every handle_hello invocation has completed, the stored counter is
\* the number of greetings sent.
C37_CounterCountsGreetings ==
    (\A t \in HelloTasks : hpc[t] = "idle") => greetings_sent = nsaid

(***************************************************************************)
(* update_greeter_settings and update_ai_greeter_settings                  *)
(* (plugins/autoresponder/plugin.py 504-586), and the settings the message *)
(* handler reads (244-272).                                                *)
(***************************************************************************)

\* Settings requests explored, and the tasks serving them.
MaxSettings == 3
GreeterTasks == {1, 2}

\* The two greeters, and for each the other one.
Greeters == {"greeter", "ai"}
Other(which) == IF which = "greeter" THEN "ai" ELSE "greeter"

\* DEFAULT_GREETER_SETTINGS["enabled"] and DEFAULT_AI_GREETER_SETTINGS["enabled"]
DefaultEnabled(which) == which = "greeter"

\* Empty storage, no request yet.
GreeterInit ==
    /\ stored_enabled = [which \in Greeters |-> <<>>]
    /\ gpc = [t \in GreeterTasks |-> "idle"]
    /\ route = [t \in GreeterTasks |-> "greeter"]
    /\ form_enabled = [t \in GreeterTasks |-> FALSE]
    /\ nsettings = 0

\* The greeter settings while other parts are exercised.
GreeterIdle == GreeterInit

\* get_greeter_settings / get_ai_greeter_settings: {**DEFAULTS, **stored}["enabled"]
EffectiveEnabled(which) ==
    IF stored_enabled[which] = <<>> THEN DefaultEnabled(which) ELSE stored_enabled[which][1]

\* other.get("enabled") of `other = await storage.get(...) or {}`
StoredGet(st, which) == st[which] # <<>> /\ st[which][1]

\* storage.set of the request's own settings dict.
SetOwn(st, which, on) == [st EXCEPT ![which] = <<on>>]
\* other["enabled"] = False; storage.set of the other greeter's dict.
DisableOther(st, which) == [st EXCEPT ![Other(which)] = <<FALSE>>]

\* A request arrives at one of the two routes; `await request.form()` returns. A
\* form that fails sanitisation is answered with a redirect and nothing is stored.
settings_call(t) ==
    /\ nsettings < MaxSettings
    /\ gpc[t] = "idle"
    /\ nsettings' = nsettings + 1
    /\ \E which \in Greeters, on \in BOOLEAN, form_ok \in BOOLEAN :
        /\ route' = [route EXCEPT ![t] = which]
        /\ form_enabled' = [form_enabled EXCEPT ![t] = on]
        /\ gpc' = [gpc EXCEPT ![t] = IF form_ok THEN "set" ELSE "idle"]
    /\ UNCHANGED stored_enabled
    /\ UNCHANGED notGreeterVars

\* On InMemoryStorage the rest of the handler runs without a suspension: set the
\* own settings, and if enabled read the other greeter's and disable it when its
\* stored dict has enabled true.
settings_memory(t) ==
    /\ ~StorageSuspends
    /\ gpc[t] = "set"
    /\ LET st == SetOwn(stored_enabled, route[t], form_enabled[t])
       IN  stored_enabled' = IF form_enabled[t] /\ StoredGet(st, Other(route[t]))
                             THEN DisableOther(st, route[t]) ELSE st
    /\ gpc' = [gpc EXCEPT ![t] = "idle"]
    /\ UNCHANGED <<route, form_enabled, nsettings>>
    /\ UNCHANGED notGreeterVars

\* On SQLModelStorage: `await storage.set(...)` of the own settings.
settings_set(t) ==
    /\ StorageSuspends
    /\ gpc[t] = "set"
    /\ stored_enabled' = SetOwn(stored_enabled, route[t], form_enabled[t])
    /\ gpc' = [gpc EXCEPT ![t] = IF form_enabled[t] THEN "get_other" ELSE "idle"]
    /\ UNCHANGED <<route, form_enabled, nsettings>>
    /\ UNCHANGED notGreeterVars

\* `await storage.get(...)` of the other greeter's settings.
settings_get_other(t) ==
    /\ gpc[t] = "get_other"
    /\ gpc' = [gpc EXCEPT ![t] = IF StoredGet(stored_enabled, Other(route[t]))
                                 THEN "set_other" ELSE "idle"]
    /\ UNCHANGED <<stored_enabled, route, form_enabled, nsettings>>
    /\ UNCHANGED notGreeterVars

\* `await storage.set(...)` of the other greeter's dict with enabled False.
settings_set_other(t) ==
    /\ gpc[t] = "set_other"
    /\ stored_enabled' = DisableOther(stored_enabled, route[t])
    /\ gpc' = [gpc EXCEPT ![t] = "idle"]
    /\ UNCHANGED <<route, form_enabled, nsettings>>
    /\ UNCHANGED notGreeterVars

NextGreeter ==
    \/ \E t \in GreeterTasks : settings_call(t)
    \/ \E t \in GreeterTasks : settings_memory(t)
    \/ \E t \in GreeterTasks : settings_set(t)
    \/ \E t \in GreeterTasks : settings_get_other(t)
    \/ \E t \in GreeterTasks : settings_set_other(t)

\* C38: once every settings request has completed, the settings the message
\* handler reads do not have both greeters enabled.
C38_NeverBothEnabled ==
    (\A t \in GreeterTasks : gpc[t] = "idle") =>
        ~(EffectiveEnabled("greeter") /\ EffectiveEnabled("ai"))

(***************************************************************************)
(* autoresponder_handler (plugins/autoresponder/plugin.py 333-398): one    *)
(* execution on one message.                                               *)
(***************************************************************************)

\* A message: from a bot or not, in a thread or not, and the name of the channel
\* it was posted in ("" when the event carries no channel id).
Messages == [bot : BOOLEAN, thread : BOOLEAN, channel : {"", "introductions", "general"}]

\* A message is about to be handled.
IntroInit ==
    /\ message \in Messages
    /\ ai_ready \in BOOLEAN
    /\ template_on \in BOOLEAN
    /\ apc = "start"
    /\ recognised = FALSE
    /\ ngreetings = 0
    /\ rules_evaluated = FALSE
    /\ nresponses = 0

\* The handler while other parts are exercised.
IntroIdle ==
    /\ message = [bot |-> TRUE, thread |-> FALSE, channel |-> ""]
    /\ ai_ready = FALSE
    /\ template_on = FALSE
    /\ apc = "done"
    /\ recognised = FALSE
    /\ ngreetings = 0
    /\ rules_evaluated = FALSE
    /\ nresponses = 0

\* Where the handler goes when an await inside the try block raises: the except
\* clause logs the error and the handler goes on to the rules (385-390).
ExceptFallsThrough == "rules"

\* The handler moves from one await to the next.
Goto(from, to) ==
    /\ apc = from
    /\ apc' = to

\* Bot messages are ignored; a message without channel goes to the rules.
intro_start ==
    /\ Goto("start", IF message.bot THEN "done"
                     ELSE IF message.channel = "" THEN "rules"
                     ELSE "conversations_info")
    /\ UNCHANGED <<message, ai_ready, template_on, recognised, ngreetings, rules_evaluated,
                   nresponses>>
    /\ UNCHANGED notIntroVars

\* await client.conversations_info(channel=channel_id)
intro_conversations_info ==
    /\ \E out \in HookOutcomes :
        IF out = "raise"
        THEN Goto("conversations_info", ExceptFallsThrough) /\ UNCHANGED recognised
        ELSE IF message.channel = "introductions"
        THEN Goto("conversations_info", "get_greeter_settings") /\ recognised' = TRUE
        ELSE Goto("conversations_info", "rules") /\ UNCHANGED recognised
    /\ UNCHANGED <<message, ai_ready, template_on, ngreetings, rules_evaluated, nresponses>>
    /\ UNCHANGED notIntroVars

\* greeter_settings = await get_greeter_settings()
intro_greeter_settings ==
    /\ \E out \in HookOutcomes :
        Goto("get_greeter_settings",
             IF out = "raise" THEN ExceptFallsThrough ELSE "get_ai_greeter_settings")
    /\ UNCHANGED <<message, ai_ready, template_on, recognised, ngreetings, rules_evaluated,
                   nresponses>>
    /\ UNCHANGED notIntroVars

\* ai_settings = await get_ai_greeter_settings(); a thread reply gets no greeting.
intro_ai_settings ==
    /\ \E out \in HookOutcomes :
        Goto("get_ai_greeter_settings",
             IF out = "raise" THEN ExceptFallsThrough
             ELSE IF message.thread THEN "done"
             ELSE IF ai_ready THEN "generate_ai_greeting"
             ELSE IF template_on THEN "say_template"
             ELSE "done")
    /\ UNCHANGED <<message, ai_ready, template_on, recognised, ngreetings, rules_evaluated,
                   nresponses>>
    /\ UNCHANGED notIntroVars

\* ai_text = await generate_ai_greeting(...): a text, or None on any failure.
intro_generate ==
    /\ \E ai_text \in BOOLEAN :
        Goto("generate_ai_greeting",
             IF ai_text THEN "say_ai"
             ELSE IF template_on THEN "say_template"
             ELSE "done")
    /\ UNCHANGED <<message, ai_ready, template_on, recognised, ngreetings, rules_evaluated,
                   nresponses>>
    /\ UNCHANGED notIntroVars

\* await say(thread_ts=thread_ts, **ai_payload) or **payload: a greeting is sent.
intro_say(which) ==
    /\ \E out \in HookOutcomes :
        IF out = "raise"
        THEN Goto("say_" \o which, ExceptFallsThrough) /\ UNCHANGED ngreetings
        ELSE Goto("say_" \o which, "counter_get_" \o which) /\ ngreetings' = ngreetings + 1
    /\ UNCHANGED <<message, ai_ready, template_on, recognised, rules_evaluated, nresponses>>
    /\ UNCHANGED notIntroVars

\* current = await storage.get(NAMESPACE, ..._COUNTER_KEY) or 0
intro_counter_get(which) ==
    /\ \E out \in HookOutcomes :
        Goto("counter_get_" \o which,
             IF out = "raise" THEN ExceptFallsThrough ELSE "counter_set_" \o which)
    /\ UNCHANGED <<message, ai_ready, template_on, recognised, ngreetings, rules_evaluated,
                   nresponses>>
    /\ UNCHANGED notIntroVars

\* await storage.set(NAMESPACE, ..._COUNTER_KEY, current + 1); after the AI
\* greeting greeting_sent is True, so the handler returns in both cases.
intro_counter_set(which) ==
    /\ \E out \in HookOutcomes :
        Goto("counter_set_" \o which, IF out = "raise" THEN ExceptFallsThrough ELSE "done")
    /\ UNCHANGED <<message, ai_ready, template_on, recognised, ngreetings, rules_evaluated,
                   nresponses>>
    /\ UNCHANGED notIntroVars

\* rules = await get_rules(); the loop matches the rules against the text.
intro_rules ==
    /\ \E out \in HookOutcomes, nrules \in {0, 1}, matches \in BOOLEAN :
        IF out = "raise" \/ nrules = 0
        THEN Goto("rules", "done") /\ UNCHANGED rules_evaluated
        ELSE Goto("rules", IF matches THEN "say_rule" ELSE "done") /\ rules_evaluated' = TRUE
    /\ UNCHANGED <<message, ai_ready, template_on, recognised, ngreetings, nresponses>>
    /\ UNCHANGED notIntroVars

\* await say(text=response_text, thread_ts=thread_ts)
intro_say_rule ==
    /\ Goto("say_rule", "done")
    /\ \E out \in HookOutcomes :
        nresponses' = IF out = "ok" THEN nresponses + 1 ELSE nresponses
    /\ UNCHANGED <<message, ai_ready, template_on, recognised, ngreetings, rules_evaluated>>
    /\ UNCHANGED notIntroVars

NextIntro ==
    \/ intro_start
    \/ intro_conversations_info
    \/ intro_greeter_settings
    \/ intro_ai_settings
    \/ intro_generate
    \/ \E which \in {"ai", "template"} : intro_say(which)
    \/ \E which \in {"ai", "template"} : intro_counter_get(which)
    \/ \E which \in {"ai", "template"} : intro_counter_set(which)
    \/ intro_rules
    \/ intro_say_rule

\* C39: for a message that the handler found to be in the channel named
\* introductions, no rule is evaluated, no rule-based response is sent and at
\* most one greeting is sent.
C39_IntroductionsSkipRules ==
    recognised =>
        /\ ~rules_evaluated
        /\ nresponses = 0
        /\ ngreetings <= 1

(***************************************************************************)
(* normalize_channel_identifier (plugins/modlog/utils.py). A str is a      *)
(* sequence of characters.                                                 *)
(***************************************************************************)

\* Length of the inputs explored, and their characters.
MaxLen == 5
Chars == {" ", "<", "#", ">", "|", "C", "G", "g"}

\* Every str of at most n characters.
Strs(n) == UNION {[1..k -> Chars] : k \in 0..n}

\* str.strip()
RECURSIVE lstrip(_)
lstrip(str) == IF str # <<>> /\ str[1] = " " THEN lstrip(Tail(str)) ELSE str
RECURSIVE rstrip(_)
rstrip(str) ==
    IF str # <<>> /\ str[Len(str)] = " " THEN rstrip(SubSeq(str, 1, Len(str) - 1)) ELSE str
strip(str) == rstrip(lstrip(str))

\* str.startswith(prefix), str.endswith(suffix)
startswith(str, prefix) == Len(str) >= Len(prefix) /\ SubSeq(str, 1, Len(prefix)) = prefix
endswith(str, suffix) ==
    Len(str) >= Len(suffix) /\ SubSeq(str, Len(str) - Len(suffix) + 1, Len(str)) = suffix

\* inner.split("|", 1)[0]
RECURSIVE BeforeBar(_)
BeforeBar(str) ==
    IF str = <<>> \/ str[1] = "|" THEN <<>> ELSE <<str[1]>> \o BeforeBar(Tail(str))

\* candidate.startswith("C") or candidate.startswith("G")
StartsWithCOnly(candidate) == startswith(candidate, <<"C">>)
StartsWithChannelId(candidate) == startswith(candidate, <<"C">>) \/ startswith(candidate, <<"G">>)

normalize_channel_identifier(str) ==
    LET candidate == strip(str)
    IN  IF candidate = <<>> THEN <<>>
        ELSE IF startswith(candidate, <<"<", "#">>) /\ endswith(candidate, <<">">>)
        THEN strip(BeforeBar(SubSeq(candidate, 3, Len(candidate) - 1)))
        ELSE IF startswith(candidate, <<"#">>) THEN candidate
        ELSE IF StartsWithChannelId(candidate) THEN candidate
        ELSE <<"#">> \o candidate

\* Some input, the function not called yet.
NormInit ==
    /\ raw \in Strs(MaxLen)
    /\ normalized = <<"pending">>

\* The variables of the call while other parts are exercised.
NormIdle ==
    /\ raw = <<>>
    /\ normalized = <<"pending">>

\* normalize_channel_identifier(raw) is called and returns.
normalize ==
    /\ normalized = <<"pending">>
    /\ normalized' = normalize_channel_identifier(raw)
    /\ UNCHANGED raw
    /\ UNCHANGED notNormVars

NextNorm ==
    \/ normalize

\* The input without the blanks around it.
Trimmed == strip(raw)

\* The input is a Slack channel link, <#ID|name> or <#ID>.
IsLink == Len(Trimmed) >= 3 /\ Trimmed[1] = "<" /\ Trimmed[2] = "#" /\ Trimmed[Len(Trimmed)] = ">"

\* What is between "<#" and ">" in a link, and its part before any "|".
LinkInner == SubSeq(Trimmed, 3, Len(Trimmed) - 1)
LinkId ==
    IF \E n \in 1..Len(LinkInner) : LinkInner[n] = "|"
    THEN SubSeq(LinkInner, 1, (CHOOSE n \in 1..Len(LinkInner) :
                                  /\ LinkInner[n] = "|"
                                  /\ \A k \in 1..(n - 1) : LinkInner[k] # "|") - 1)
    ELSE LinkInner

\* C30: normalize_channel_identifier gives the canonical form of every input,
\* blanks around the input and around a link's ID not counting: the empty string
\* for a blank input, the ID part before any "|" for a link <#ID|name> or <#ID>,
\* the input itself if it starts with "#", "C" or "G", and "#" followed by the
\* input otherwise.
C30_NormalizeChannelIdentifier ==
    normalized # <<"pending">> =>
        normalized =
            IF Trimmed = <<>> THEN <<>>
            ELSE IF IsLink THEN strip(LinkId)
            ELSE IF Trimmed[1] \in {"#", "C", "G"} THEN Trimmed
            ELSE <<"#">> \o Trimmed

\* C30 witness: the link <#G|> was normalised to G, its part before the "|".
C30_Witness ==
    /\ raw = <<"<", "#", "G", "|", ">">>
    /\ normalized = <<"G">>

(***************************************************************************)
(* update_settings of the modlog plugin (plugins/modlog/plugin.py 139-164) *)
(* with sanitize_channel_input and validate_slack_channel_identifier       *)
(* (security/validation.py 10-46).                                         *)
(***************************************************************************)

\* sanitize_channel_input(..., max_length=50): explored with a short limit.
max_length == 5

\* Length of the arbitrary form values explored.
MaxFormLen == 3

\* The characters of a form value: those of Chars and the null byte.
NUL == "NUL"
FormChars == Chars \cup {NUL}
FormStrs(n) == UNION {[1..k -> FormChars] : k \in 0..n}

\* The form values explored: every short one, every shorter one written as a
\* Slack link, and every shorter one followed by max_length - 1 more characters
\* (of max_length characters when one character precedes them, and longer
\* when two do).
Link(str) == <<"<", "#">> \o str \o <<">">>
Long(str) == str \o [n \in 1..(max_length - 1) |-> "C"]
FormValues ==
    FormStrs(MaxFormLen)
        \cup {Link(str) : str \in FormStrs(MaxFormLen - 1)}
        \cup {Long(str) : str \in FormStrs(MaxFormLen - 1)}

\* value.replace("\x00", "")
RECURSIVE RemoveNul(_)
RemoveNul(str) ==
    IF str = <<>> THEN <<>>
    ELSE IF str[1] = NUL THEN RemoveNul(Tail(str))
    ELSE <<str[1]>> \o RemoveNul(Tail(str))

\* What raises ValueError.
ValueError == <<"ValueError">>

\* `if len(value) > max_length: raise ValueError`
TooLong(value) == Len(value) > max_length

\* sanitize_channel_input(value, max_length)
sanitize_channel_input(value) ==
    LET cleaned == strip(RemoveNul(value))
    IN  IF cleaned = <<>> THEN <<>>
        ELSE IF TooLong(cleaned) THEN ValueError
        ELSE cleaned

\* The character classes of the pattern, over the characters explored.
UpperOrDigit == {"C", "G"}
NameChars == {"C", "G", "g"}

\* re.match of [A-Z0-9]+$ resp. [A-Za-z0-9._-]+$ on the rest of the value.
RECURSIVE AllIn(_, _)
AllIn(str, class) ==
    IF str = <<>> THEN TRUE
    ELSE str[1] \in class /\ AllIn(Tail(str), class)

\* validate_slack_channel_identifier(value): True, or FALSE for ValueError.
ValidateFirstCharOnly(value) ==
    value = <<>> \/ value[1] \in {"C", "G", "#"}
validate_slack_channel_identifier(value) ==
    \/ value = <<>>
    \/ /\ value[1] \in {"C", "G"}
       /\ Tail(value) # <<>>
       /\ AllIn(Tail(value), UpperOrDigit)
    \/ /\ value[1] = "#"
       /\ Tail(value) # <<>>
       /\ AllIn(Tail(value), NameChars)

\* Empty storage, no request being served.
ModlogInit ==
    /\ stored_channel_id = <<>>
    /\ mpc = "idle"
    /\ form_value = <<>>
    /\ mstatus = 0

\* The modlog settings while other parts are exercised.
ModlogIdle == ModlogInit

\* An authenticated request arrives; `form = await request.form()` returns.
modlog_form ==
    /\ mpc = "idle"
    /\ form_value' \in FormValues
    /\ mpc' = "form"
    /\ UNCHANGED <<stored_channel_id, mstatus>>
    /\ UNCHANGED notModlogVars

\* The rest of update_settings: sanitise, normalise, validate, and either raise
\* HTTPException(400) or store the channel id and redirect (143-164).
modlog_update ==
    /\ mpc = "form"
    /\ LET raw_channel == sanitize_channel_input(form_value)
           channel_id == normalize_channel_identifier(raw_channel)
       IN  IF raw_channel = ValueError
           THEN mstatus' = 400 /\ UNCHANGED stored_channel_id
           ELSE IF ~validate_slack_channel_identifier(channel_id)
           THEN mstatus' = 400 /\ UNCHANGED stored_channel_id
           ELSE mstatus' = 303 /\ stored_channel_id' = channel_id
    /\ mpc' = "idle"
    /\ form_value' = <<>>
    /\ UNCHANGED notModlogVars

NextModlog ==
    \/ modlog_form
    \/ modlog_update

\* A string is a channel or group ID, [CG][A-Z0-9]+, or a name, #[A-Za-z0-9._-]+.
IsChannelId(str) ==
    /\ Len(str) >= 2
    /\ str[1] \in {"C", "G"}
    /\ \A n \in 2..Len(str) : str[n] \in {"C", "G"}
IsChannelName(str) ==
    /\ Len(str) >= 2
    /\ str[1] = "#"
    /\ \A n \in 2..Len(str) : str[n] \in {"C", "G", "g"}
WellFormed(str) == str = <<>> \/ IsChannelId(str) \/ IsChannelName(str)

\* The form value of the request being served, sanitised, and then normalised.
Sanitized == strip(RemoveNul(form_value))
Normalized == normalize_channel_identifier(Sanitized)

\* C40: the stored channel_id is empty, a channel or group ID, or a channel
\* name; a request whose sanitised value is longer than max_length or whose
\* normalised value is none of these is answered 400 and stores nothing, and
\* any other request stores the normalised value.
C40_StoredChannelValid ==
    /\ [](WellFormed(stored_channel_id))
    /\ [][mpc = "form" =>
            IF Len(Sanitized) > max_length \/ ~WellFormed(Normalized)
            THEN mstatus' = 400 /\ stored_channel_id' = stored_channel_id
            ELSE mstatus' = 303 /\ stored_channel_id' = Normalized]_vars

\* C40 witness: a request was rejected while the name #gCCCC, normalised from
\* a value of max_length characters, is stored.
C40_Witness ==
    /\ mstatus = 400
    /\ mpc = "idle"
    /\ stored_channel_id = <<"#", "g", "C", "C", "C", "C">>

\* The process right after discovery, with a freshly constructed router.
InitBoot == BootInit /\ RouterInit /\ DiscoverOver /\ ShippedOver /\ DashInit /\ AdminInit /\ StoreIdle /\ NormIdle /\ SocketIdle /\ LoginIdle /\ SqlIdle /\ HelloIdle /\ GreeterIdle /\ IntroIdle /\ ModlogIdle

SpecBoot == InitBoot /\ [][NextBoot]_vars

\* A freshly constructed router in a serving process.
InitRouter == RouterInit /\ BootDone /\ DiscoverOver /\ ShippedOver /\ DashInit /\ AdminInit /\ StoreIdle /\ NormIdle /\ SocketIdle /\ LoginIdle /\ SqlIdle /\ HelloIdle /\ GreeterIdle /\ IntroIdle /\ ModlogIdle

SpecRouter == InitRouter /\ [][NextRouter]_vars

\* The process as app.py starts discovery, with a freshly constructed router.
InitDiscover == DiscoverInit /\ RouterInit /\ ShippedOver /\ DashInit /\ AdminInit /\ StoreIdle /\ NormIdle /\ SocketIdle /\ LoginIdle /\ SqlIdle /\ HelloIdle /\ GreeterIdle /\ IntroIdle /\ ModlogIdle

SpecDiscover == InitDiscover /\ [][NextDiscover]_vars

\* The shipped plugins in a manager, with a freshly constructed router.
InitShipped == ShippedInit /\ RouterInit /\ DiscoverOver /\ DashInit /\ AdminInit /\ StoreIdle /\ NormIdle /\ SocketIdle /\ LoginIdle /\ SqlIdle /\ HelloIdle /\ GreeterIdle /\ IntroIdle /\ ModlogIdle

SpecShipped == InitShipped /\ [][NextShipped]_vars

\* A freshly constructed registry, as app.py makes it before any tab is registered.
InitDash == DashInit /\ RouterInit /\ BootDone /\ DiscoverOver /\ ShippedOver /\ AdminInit /\ StoreIdle /\ NormIdle /\ SocketIdle /\ LoginIdle /\ SqlIdle /\ HelloIdle /\ GreeterIdle /\ IntroIdle /\ ModlogIdle

SpecDash == InitDash /\ [][NextDash]_vars

SpecRender == InitDash /\ [][NextRender]_vars

\* The application serving admin requests.
InitAdmin == AdminInit /\ DashInit /\ RouterInit /\ BootDone /\ DiscoverOver /\ ShippedOver /\ StoreIdle /\ NormIdle /\ SocketIdle /\ LoginIdle /\ SqlIdle /\ HelloIdle /\ GreeterIdle /\ IntroIdle /\ ModlogIdle

SpecAdmin == InitAdmin /\ [][NextAdmin]_vars

\* Task t completes a set or a delete in this step.
Completes(t) ==
    /\ stask[t].op \in {"set", "delete"}
    /\ stask[t].pc # "done"
    /\ stask'[t].pc = "done"

\* C28: storage is a map keyed by (namespace, key). A get returns the value of
\* the last completed set for its pair, null if there was none or a delete
\* completed since; a delete of an absent pair ends without error; and a pair
\* changes only in the step that completes a set or a delete on that very pair.
C28_StorageIsMap ==
    /\ [](\A t \in Tasks :
            (stask[t].pc = "done" /\ stask[t].op = "get") =>
                stask[t].status = "ok" /\ stask[t].result = stask[t].expected)
    /\ [](\A t \in Tasks :
            (stask[t].pc = "done" /\ stask[t].op = "delete" /\ ~stask[t].seen) => stask[t].status = "ok")
    /\ [][\A q \in Pairs :
            data'[q] # data[q] => \E t \in Tasks : stask[t].pair = q /\ Completes(t)]_vars

\* C28 witness: a get returned a value that had been set, and a delete of
\* another pair, which was absent, has completed.
C28_Witness ==
    \E t, u \in Tasks :
        /\ stask[t].pc = "done" /\ stask[t].op = "get" /\ stask[t].result \in Values
        /\ stask[u].pc = "done" /\ stask[u].op = "delete" /\ ~stask[u].seen
        /\ stask[u].pair # stask[t].pair

\* What get would return for each pair.
Contents == [q \in Pairs |-> Loaded(backend, data[q])]

\* The contents after call c on contents d, executed alone.
Apply(d, c) ==
    IF c.op = "set" THEN [d EXCEPT ![c.pair] = c.value]
    ELSE IF c.op = "delete" THEN [d EXCEPT ![c.pair] = "null"]
    ELSE d

\* The contents after the issued calls executed one after the other in the
\* order f[1], ..., f[k], from nothing stored.
RECURSIVE ApplyAll(_, _)
ApplyAll(f, k) ==
    IF k = 0 THEN [q \in Pairs |-> "null"]
    ELSE Apply(ApplyAll(f, k - 1), hist[f[k]])

\* The orders in which n calls can be executed.
CallOrders(n) == {f \in [1..n -> 1..n] : \A i, j \in 1..n : i # j => f[i] # f[j]}

\* C29: storage tolerates concurrent calls. No call ends in an error, and once
\* every call has completed the contents are those of the calls executed in
\* some sequential order.
C29_ConcurrentCallsSerialise ==
    /\ \A t \in Tasks : stask[t].status # "error"
    /\ (\A t \in Tasks : stask[t].pc \in {"idle", "done"}) =>
            \E f \in CallOrders(Len(hist)) : Contents = ApplyAll(f, Len(hist))

\* Tasks calling the storage app.py constructed.
InitStore == StoreInit /\ AdminInit /\ DashInit /\ RouterInit /\ BootDone /\ DiscoverOver /\ ShippedOver /\ NormIdle /\ SocketIdle /\ LoginIdle /\ SqlIdle /\ HelloIdle /\ GreeterIdle /\ IntroIdle /\ ModlogIdle

SpecStore == InitStore /\ [][NextStore]_vars

\* The lifecycle together with the socket task.
SpecSocket == InitBoot /\ [][NextSocket]_vars

\* Requests to the login route, on an empty rate limiter.
InitLogin == LoginInit /\ SocketIdle /\ NormIdle /\ StoreIdle /\ AdminInit /\ DashInit /\ RouterInit /\ BootDone /\ DiscoverOver /\ ShippedOver /\ SqlIdle /\ HelloIdle /\ GreeterIdle /\ IntroIdle /\ ModlogIdle

SpecLogin == InitLogin /\ [][NextLogin]_vars

\* Calls on a fresh SQLModelStorage.
InitSql == SqlInit /\ LoginIdle /\ SocketIdle /\ NormIdle /\ StoreIdle /\ AdminInit /\ DashInit /\ RouterInit /\ BootDone /\ DiscoverOver /\ ShippedOver /\ HelloIdle /\ GreeterIdle /\ IntroIdle /\ ModlogIdle

SpecSql == InitSql /\ [][NextSql]_vars

\* Messages for the hello plugin, on empty storage.
InitHello == HelloInit /\ SqlIdle /\ LoginIdle /\ SocketIdle /\ NormIdle /\ StoreIdle /\ AdminInit /\ DashInit /\ RouterInit /\ BootDone /\ DiscoverOver /\ ShippedOver /\ GreeterIdle /\ IntroIdle /\ ModlogIdle

SpecHello == InitHello /\ [][NextHello]_vars

\* Settings requests for the two greeters, on empty storage of either backend.
InitGreeter == GreeterInit /\ HelloInit /\ SqlIdle /\ LoginIdle /\ SocketIdle /\ NormIdle /\ StoreIdle /\ AdminInit /\ DashInit /\ RouterInit /\ BootDone /\ DiscoverOver /\ ShippedOver /\ IntroIdle /\ ModlogIdle

SpecGreeter == InitGreeter /\ [][NextGreeter]_vars

\* One message for autoresponder_handler.
InitIntro == IntroInit /\ GreeterIdle /\ HelloIdle /\ SqlIdle /\ LoginIdle /\ SocketIdle /\ NormIdle /\ StoreIdle /\ AdminInit /\ DashInit /\ RouterInit /\ BootDone /\ DiscoverOver /\ ShippedOver /\ ModlogIdle

SpecIntro == InitIntro /\ [][NextIntro]_vars

\* Requests to the modlog settings route, on empty storage.
InitModlog == ModlogInit /\ IntroIdle /\ GreeterIdle /\ HelloIdle /\ SqlIdle /\ LoginIdle /\ SocketIdle /\ NormIdle /\ StoreIdle /\ AdminInit /\ DashInit /\ RouterInit /\ BootDone /\ DiscoverOver /\ ShippedOver

SpecModlog == InitModlog /\ [][NextModlog]_vars

\* A call of normalize_channel_identifier on some input.
InitNorm == NormInit /\ StoreIdle /\ AdminInit /\ DashInit /\ RouterInit /\ BootDone /\ DiscoverOver /\ ShippedOver /\ SocketIdle /\ LoginIdle /\ SqlIdle /\ HelloIdle /\ GreeterIdle /\ IntroIdle /\ ModlogIdle

SpecNorm == InitNorm /\ [][NextNorm]_vars

\* The event loop runs every task that can run: a task at the lock gets it (an
\* asyncio.Lock wakes its waiters in turn), the body of subscribe completes, the
\* loop of dispatch goes on, and every awaited handler terminates.
FairRouter ==
    \A t \in Tasks :
        /\ SF_vars(subscribe_acquire(t))
        /\ WF_vars(subscribe_append(t))
        /\ WF_vars(dispatch_invoke(t))
        /\ WF_vars(dispatch_return(t))
        /\ WF_vars(handler_return(t) \/ handler_raise(t))

\* The router steps with one payload value: the payload is handed to the
\* handlers and decides no step.
NextRouterOnePayload ==
    \E t \in Tasks :
        \/ subscribe_call(t)
        \/ subscribe_acquire(t)
        \/ subscribe_append(t)
        \/ dispatch_call(t) /\ task'[t].payload = "U1"
        \/ dispatch_invoke(t)
        \/ handler_return(t)
        \/ handler_raise(t)
        \/ handler_subscribe(t)
        \/ dispatch_return(t)

SpecRouterFair == InitRouter /\ [][NextRouterOnePayload]_vars /\ FairRouter

====
